---- MODULE Spec2Model ----
(***************************************************************************)
(* Lyrica: fetch orchestration (src/fetch_controller.py), result           *)
(* validation (src/validator.py), the expiring file cache (src/cache.py)   *)
(* and the /lyrics/ request handler (src/main.py, src/router.py).          *)
(*                                                                         *)
(* Strings are sequences of one-character strings, so that normalisation,  *)
(* splitting and similarity are computed character by character as the     *)
(* Python code does.                                                       *)
(***************************************************************************)
EXTENDS Integers, Sequences, FiniteSets, TLC

(***************************************************************************)
(* Characters and strings                                                  *)
(***************************************************************************)
LowerLetters == <<"a","b","c","d","e","f","g","h","i","j","k","l","m",
                  "n","o","p","q","r","s","t","u","v","w","x","y","z">>

UpperLetters == <<"A","B","C","D","E","F","G","H","I","J","K","L","M",
                  "N","O","P","Q","R","S","T","U","V","W","X","Y","Z">>

DigitChars == <<"0","1","2","3","4","5","6","7","8","9">>

Range(f) == {f[i] : i \in DOMAIN f}

Digits == Range(DigitChars)

UpperSet == Range(UpperLetters)

\* the characters of regex class \w
WordChars == Range(LowerLetters) \cup UpperSet \cup Digits \cup {"_"}

Min(S) == CHOOSE x \in S : \A y \in S : x <= y

Max(S) == CHOOSE x \in S : \A y \in S : x >= y

\* the absent value (Python None) where a string is expected; it differs from
\* every string, whose elements are single characters
NoneStr == <<"None">>

\* Python truthiness of an optional string
Truthy(s) == s # NoneStr /\ s # <<>>

\* regex class \w
IsWordChar(c) == c \in WordChars

\* regex class \s
IsSpaceChar(c) == c = " "

\* str.lower() on one character
Lower(c) ==
    IF c \in UpperSet
    THEN LowerLetters[CHOOSE i \in DOMAIN UpperLetters : UpperLetters[i] = c]
    ELSE c

\* str.lower()
LowerStr(s) == [i \in 1..Len(s) |-> Lower(s[i])]

\* s[lo..hi] for the non-empty index set keep, <<>> for the empty one
Between(s, keep) == IF keep = {} THEN <<>> ELSE SubSeq(s, Min(keep), Max(keep))

\* str.strip(): drop leading and trailing whitespace
Strip(s) == Between(s, {i \in 1..Len(s) : ~IsSpaceChar(s[i])})

\* re.sub(r"[^\w\s]", "", text)
RemovePunct(s) == SelectSeq(s, LAMBDA c : IsWordChar(c) \/ IsSpaceChar(c))

\* re.sub(r"\s+", " ", text)
RECURSIVE CollapseSpaces(_)
CollapseSpaces(s) ==
    IF s = <<>> THEN <<>>
    ELSE IF IsSpaceChar(s[1]) /\ Len(s) > 1 /\ IsSpaceChar(s[2])
    THEN CollapseSpaces(Tail(s))
    ELSE <<(IF IsSpaceChar(s[1]) THEN " " ELSE s[1])>> \o CollapseSpaces(Tail(s))

\* validator.normalize_string
normalize_string(text) ==
    IF ~Truthy(text) THEN <<>>
    ELSE Strip(LowerStr(CollapseSpaces(RemovePunct(text))))

(***************************************************************************)
(* difflib.SequenceMatcher(None, a, b).ratio() for strings shorter than    *)
(* 200 characters (no junk, no popularity heuristic).                      *)
(***************************************************************************)
\* length of the common run of a[i..ahi] and b[j..bhi]
RECURSIVE MatchLen(_, _, _, _, _, _)
MatchLen(a, b, i, j, ahi, bhi) ==
    IF i > ahi \/ j > bhi THEN 0
    ELSE IF a[i] # b[j] THEN 0
    ELSE 1 + MatchLen(a, b, i + 1, j + 1, ahi, bhi)

\* among the block starts cand, the earliest in a and then the earliest in b
EarliestBlock(cand) ==
    CHOOSE p \in cand : \A q \in cand : p[1] < q[1] \/ (p[1] = q[1] /\ p[2] <= q[2])

\* lens maps each pair of start indices to the length of the block there
LongestBlock(alo, blo, lens, best) ==
    IF best = 0 THEN <<alo, blo, 0>>
    ELSE EarliestBlock({p \in DOMAIN lens : lens[p] = best}) \o <<best>>

\* SequenceMatcher.find_longest_match on a[alo..ahi], b[blo..bhi] (both
\* non-empty): the longest block, earliest in a, then earliest in b, as
\* <<i, j, k>>, k = 0 when nothing matches
BlockLengths(a, b, alo, ahi, blo, bhi) ==
    [p \in (alo..ahi) \X (blo..bhi) |-> MatchLen(a, b, p[1], p[2], ahi, bhi)]

MaxLength(lens) == Max(Range(lens))

find_longest_match_in(alo, blo, lens) == LongestBlock(alo, blo, lens, MaxLength(lens))

find_longest_match(a, b, alo, ahi, blo, bhi) ==
    find_longest_match_in(alo, blo, BlockLengths(a, b, alo, ahi, blo, bhi))

\* SequenceMatcher.get_matching_blocks: total size of the matching blocks
RECURSIVE MatchingSize(_, _, _, _, _, _)
RECURSIVE MatchingAround(_, _, _, _, _, _, _)
MatchingAround(a, b, alo, ahi, blo, bhi, m) ==
    IF m[3] = 0 THEN 0
    ELSE m[3]
         + MatchingSize(a, b, alo, m[1] - 1, blo, m[2] - 1)
         + MatchingSize(a, b, m[1] + m[3], ahi, m[2] + m[3], bhi)

MatchingSize(a, b, alo, ahi, blo, bhi) ==
    IF alo > ahi \/ blo > bhi THEN 0
    ELSE MatchingAround(a, b, alo, ahi, blo, bhi, find_longest_match(a, b, alo, ahi, blo, bhi))

\* the similarity threshold of the call sites, 0.75, as a fraction
ThresholdNum == 3

ThresholdDen == 4

\* SequenceMatcher.ratio() as the fraction <<2*M, T>>; <<0, 1>> is 0.0
Ratio(s1, s2) ==
    IF s1 = <<>> \/ s2 = <<>> THEN <<0, 1>>
    ELSE <<2 * MatchingSize(s1, s2, 1, Len(s1), 1, Len(s2)), Len(s1) + Len(s2)>>

\* validator.get_similarity_ratio
get_similarity_ratio(str1, str2) == Ratio(normalize_string(str1), normalize_string(str2))

\* ratio >= threshold, both fractions <<numerator, denominator>>
AtLeast(r, threshold) == r[1] * threshold[2] >= threshold[1] * r[2]

(***************************************************************************)
(* validator.split_artists                                                 *)
(***************************************************************************)
\* the alternatives of featuring_patterns, in the order of the regex
FeaturingPatterns ==
    << <<"f","e","a","t",".">>,
       <<"f","t",".">>,
       <<"f","e","a","t","u","r","i","n","g">>,
       <<"w","i","t","h">>,
       <<"&">>,
       <<"a","n","d">> >>

\* the smallest element of S, or d if S is empty
MinOr(S, d) == IF S = {} THEN d ELSE Min(S)

\* first index >= j that is not whitespace (Len(s) + 1 if none): \s*
SkipSpaces(s, j) == MinOr({i \in j..Len(s) : ~IsSpaceChar(s[i])}, Len(s) + 1)

\* pattern kw matches s at index j, ignoring case (re.I)
MatchesAt(s, j, kw) ==
    /\ j + Len(kw) - 1 <= Len(s)
    /\ \A n \in 1..Len(kw) : Lower(s[j + n - 1]) = kw[n]

\* index of the first alternative that matches s at j, 0 if none
FeaturingAt(s, j) ==
    MinOr({n \in DOMAIN FeaturingPatterns : MatchesAt(s, j, FeaturingPatterns[n])}, 0)

\* re.sub(featuring_patterns, ', ', artist_str, flags=re.I); SubFeaturingAt
\* is given the first non-blank index j and the alternative n matching there
RECURSIVE SubFeaturing(_)
RECURSIVE SubFeaturingAt(_, _, _)
SubFeaturingAt(s, j, n) ==
    IF n # 0
    THEN <<",", " ">>
         \o SubFeaturing(SubSeq(s, SkipSpaces(s, j + Len(FeaturingPatterns[n])), Len(s)))
    ELSE <<s[1]>> \o SubFeaturing(Tail(s))

SubFeaturingFrom(s, j) == SubFeaturingAt(s, j, FeaturingAt(s, j))

SubFeaturing(s) == IF s = <<>> THEN <<>> ELSE SubFeaturingFrom(s, SkipSpaces(s, 1))

\* str.split / re.split on single-character separators: the pieces between them
RECURSIVE SplitOn(_, _)
RECURSIVE SplitAt(_, _, _)
SplitAt(s, seps, cut) ==
    IF cut = 0 THEN <<s>>
    ELSE <<SubSeq(s, 1, cut - 1)>> \o SplitOn(SubSeq(s, cut + 1, Len(s)), seps)

SplitOn(s, seps) == SplitAt(s, seps, MinOr({i \in 1..Len(s) : s[i] \in seps}, 0))

\* re.split(delimiters, artist_str); the \s* around , ; / only trims the
\* pieces, which normalize_string trims again
SplitOnDelimiters(s) == SplitOn(s, {",", ";", "/"})

\* the pieces a with a.strip() non-empty
NonBlank(pieces) == SelectSeq(pieces, LAMBDA a : Strip(a) # <<>>)

NormalizeAll(pieces) == [i \in DOMAIN pieces |-> normalize_string(pieces[i])]

\* validator.split_artists
split_artists(artist_str) ==
    IF ~Truthy(artist_str) THEN <<>>
    ELSE NormalizeAll(NonBlank(SplitOnDelimiters(SubFeaturing(artist_str))))

(***************************************************************************)
(* Provider results (LyricsResult, sources/base_fetcher.py).  lyrics,      *)
(* timed_lyrics and timestamped record whether the field is present and    *)
(* non-empty.                                                              *)
(***************************************************************************)
\* absent result: the adapter returned None (or an empty dict)
NoResult ==
    [source |-> 0, artist |-> NoneStr, title |-> NoneStr, lyrics |-> FALSE,
     hasTimestamps |-> FALSE, timed_lyrics |-> FALSE, timestamped |-> FALSE]

\* validator.extract_artist_song_from_result
extract_artist_song_from_result(result) ==
    [artists |-> split_artists(result.artist), song |-> normalize_string(result.title)]

\* " ".join(strs)
RECURSIVE JoinWithSpace(_)
JoinWithSpace(strs) ==
    IF strs = <<>> THEN <<>>
    ELSE IF Len(strs) = 1 THEN strs[1]
    ELSE strs[1] \o <<" ">> \o JoinWithSpace(Tail(strs))

\* Python's  needle in hay  on strings
IsSubstring(needle, hay) ==
    \E i \in 1..(Len(hay) - Len(needle) + 1) : SubSeq(hay, i, i + Len(needle) - 1) = needle

\* Check A of validate_lyrics_match
ArtistListMatch(req, returned_artists, threshold) ==
    \E k \in DOMAIN returned_artists :
        AtLeast(get_similarity_ratio(req, returned_artists[k]), threshold)

\* a faulty variant: the substring checks come before the artist list
ArtistMatchMethodListLast(req, returned_artists, raw_returned_artists_str, returned_song, threshold) ==
    IF Len(req) > 3 /\ IsSubstring(req, raw_returned_artists_str)
    THEN "Partial Artist String"
    ELSE IF Len(req) > 3 /\ IsSubstring(req, returned_song) THEN "Song Title"
    ELSE IF ArtistListMatch(req, returned_artists, threshold) THEN "Artist List"
    ELSE ""

\* the checks of validate_lyrics_match on one requested artist req: the tag of
\* the first check that accepts it, "" if none does
ArtistMatchMethod(req, returned_artists, raw_returned_artists_str, returned_song, threshold) ==
    IF ArtistListMatch(req, returned_artists, threshold) THEN "Artist List"
    ELSE IF Len(req) <= 3 THEN ""
    ELSE IF IsSubstring(req, raw_returned_artists_str) THEN "Partial Artist String"
    ELSE IF IsSubstring(req, returned_song) THEN "Song Title"
    ELSE ""

\* the first non-empty tag of methods, "" if none: the loop breaks there
FirstMethod(methods) ==
    IF \A i \in DOMAIN methods : methods[i] = "" THEN ""
    ELSE methods[Min({i \in DOMAIN methods : methods[i] # ""})]

\* the artist loop of validate_lyrics_match
MatchMethod(requested_artists, returned_artists, returned_song, threshold) ==
    FirstMethod([i \in DOMAIN requested_artists |->
                    ArtistMatchMethod(requested_artists[i], returned_artists,
                                      JoinWithSpace(returned_artists), returned_song,
                                      threshold)])

Verdict(valid, reason, match_method, song_match) ==
    [valid |-> valid, reason |-> reason, match_method |-> match_method,
     song_match |-> song_match]

\* a faulty variant: the song similarity is not required
DecideByArtistOnly(match_method, song_similarity, threshold) ==
    IF match_method # ""
    THEN Verdict(TRUE, "Matched", match_method, song_similarity)
    ELSE Verdict(FALSE, "Artist not found in metadata", match_method, song_similarity)

\* the return statements of validate_lyrics_match
Decide(match_method, song_similarity, threshold) ==
    IF match_method # "" /\ AtLeast(song_similarity, threshold)
    THEN Verdict(TRUE, "Matched", match_method, song_similarity)
    ELSE Verdict(FALSE, "Artist not found in metadata", match_method, song_similarity)

ValidateExtracted(requested_artists, normalized_requested_song, ex, threshold) ==
    IF ex.artists = <<>> \/ ex.song = <<>>
    THEN Verdict(FALSE, "Missing metadata", "", <<0, 1>>)
    ELSE Decide(MatchMethod(requested_artists, ex.artists, ex.song, threshold),
                get_similarity_ratio(normalized_requested_song, ex.song),
                threshold)

\* validator.validate_lyrics_match
validate_lyrics_match(requested_artist, requested_song, result, threshold) ==
    ValidateExtracted(split_artists(requested_artist), normalize_string(requested_song),
                      extract_artist_song_from_result(result), threshold)

\* a faulty variant: only the first successful attempt is looked at
CheckedFirstOnly(attempts) ==
    SelectSeq(SubSeq(attempts, 1, MinOr({i \in DOMAIN attempts : attempts[i].success}, 0)),
              LAMBDA a : a.success /\ a.result # NoResult)

\* the attempts validate_and_filter_results looks at
Checked(attempts) == SelectSeq(attempts, LAMBDA a : a.success /\ a.result # NoResult)

\* each checked attempt with its verdict
WithVerdicts(requested_artist, requested_song, checked, threshold) ==
    [i \in DOMAIN checked |->
        [api |-> checked[i].api, result |-> checked[i].result,
         validation |-> validate_lyrics_match(requested_artist, requested_song,
                                              checked[i].result, threshold)]]

FilterResult(valid_results) ==
    [has_valid_match |-> Len(valid_results) > 0,
     valid_results   |-> valid_results,
     all_failed      |-> Len(valid_results) = 0]

\* a faulty variant: the validator's default threshold of 0.5 is used whatever
\* threshold is passed
validate_and_filter_default_threshold(requested_artist, requested_song, attempts, threshold) ==
    FilterResult(SelectSeq(WithVerdicts(requested_artist, requested_song,
                                        Checked(attempts), <<1, 2>>),
                           LAMBDA v : v.validation.valid))

\* validator.validate_and_filter_results
validate_and_filter_results(requested_artist, requested_song, attempts, threshold) ==
    FilterResult(SelectSeq(WithVerdicts(requested_artist, requested_song,
                                        Checked(attempts), threshold),
                           LAMBDA v : v.validation.valid))

(***************************************************************************)
(* fetch_controller: constants and the parsing of a custom sequence        *)
(***************************************************************************)
FETCHER_MAP == <<"Genius", "LRCLIB", "SimpMusic", "YouTube Music", "Lyrics.ovh", "ChartLyrics">>

DEFAULT_SYNCED_SEQUENCE == <<2, 3, 4>>

DEFAULT_PLAIN_SEQUENCE == <<1, 2, 3, 4, 5, 6>>

FAST_MODE_SEQUENCE == <<2, 3>>

\* ids whose entry of all_fetchers holds a fetcher: ALL_FETCHERS has an
\* instance for each of the six names
ConfiguredFetchers == DOMAIN FETCHER_MAP

AllDigits(body) == body # <<>> /\ \A i \in DOMAIN body : body[i] \in Digits

\* t without its sign
Unsigned(t) == IF t # <<>> /\ t[1] \in {"+", "-"} THEN Tail(t) ELSE t

\* int(x) accepts x: optional sign and decimal digits, surrounding whitespace ignored
IsIntLiteral(x) == AllDigits(Unsigned(Strip(x)))

RECURSIVE ParseNat(_)
ParseNat(s) ==
    IF s = <<>> THEN 0
    ELSE 10 * ParseNat(SubSeq(s, 1, Len(s) - 1))
         + (CHOOSE n \in 0..9 : DigitChars[n + 1] = s[Len(s)])

ParseSigned(t) == IF t[1] = "-" THEN 0 - ParseNat(Tail(t)) ELSE ParseNat(Unsigned(t))

\* int(x)
ParseInt(x) == ParseSigned(Strip(x))

\* the entries x of sequence.split(",") with x.strip() != ""
SequenceEntries(sequence) ==
    SelectSeq(SplitOn(sequence, {","}), LAMBDA x : Strip(x) # <<>>)

SomeNotInt(entries) == \E i \in DOMAIN entries : ~IsIntLiteral(entries[i])

\* int(x) raises ValueError for some entry
SequenceFormatError(sequence) == SomeNotInt(SequenceEntries(sequence))

ParseAll(entries) == [i \in DOMAIN entries |-> ParseInt(entries[i])]

\* [int(x) for x in sequence.split(",") if x.strip() != ""]
ParseSequence(sequence) == ParseAll(SequenceEntries(sequence))

\* a faulty variant: duplicates are not rejected
InvalidFetcherIdsDuplicatesAllowed(fetcher_ids) ==
    \/ fetcher_ids = <<>>
    \/ \E i \in DOMAIN fetcher_ids : ~(1 <= fetcher_ids[i] /\ fetcher_ids[i] <= 6)
    \/ Len(fetcher_ids) > 6

\* a faulty variant: a sequence without an entry is let through
InvalidFetcherIdsEmptyAllowed(fetcher_ids) ==
    \/ \E i \in DOMAIN fetcher_ids : ~(1 <= fetcher_ids[i] /\ fetcher_ids[i] <= 6)
    \/ Len(fetcher_ids) > 6
    \/ Len(fetcher_ids) # Cardinality(Range(fetcher_ids))

\* the rejection test of fetch_lyrics_controller on the parsed ids
InvalidFetcherIds(fetcher_ids) ==
    \/ fetcher_ids = <<>>
    \/ \E i \in DOMAIN fetcher_ids : ~(1 <= fetcher_ids[i] /\ fetcher_ids[i] <= 6)
    \/ Len(fetcher_ids) > 6
    \/ Len(fetcher_ids) # Cardinality(Range(fetcher_ids))

\* a faulty variant: a custom sequence of one provider is raced as well
UseParallelAnyCustom(fast_mode, pass_param, sequence, fetcher_ids) ==
    fast_mode \/ (pass_param /\ Truthy(sequence))

\* the mode test of fetch_lyrics_controller: parallel (race) or sequential
UseParallel(fast_mode, pass_param, sequence, fetcher_ids) ==
    fast_mode \/ (pass_param /\ Truthy(sequence) /\ Len(fetcher_ids) > 1)

(***************************************************************************)
(* Attempts and responses                                                  *)
(***************************************************************************)
\* An attempt of either mode: the parallel mode records success with result
\* or reason; the sequential mode records a status, kept in reason.
Attempt(api, success, result, reason) ==
    [api |-> api, success |-> success, result |-> result, reason |-> reason]

NoAttempt == Attempt("", FALSE, NoResult, "")

\* a faulty variant: the timestamp requirement is not tested
UsableWithoutTimestamps(result, timestamps) == result # NoResult

\* the acceptance test on what an adapter returned (fetch_with_timeout and the
\* sequential loop use the same expression)
Usable(result, timestamps) ==
    /\ result # NoResult
    /\ (~timestamps \/ result.hasTimestamps \/ result.timed_lyrics \/ result.timestamped)

\* what an adapter call does: kind is "returned" (with a result, NoResult for
\* None), "raise", or "hang" (no answer within the per-call bound)
Outcome(kind, result) == [kind |-> kind, result |-> result]

\* the adapter was not called or has not answered
NoOutcome == Outcome("none", NoResult)

\* fetch_controller.fetch_with_timeout
fetch_with_timeout(api_name, outcome, timestamps) ==
    IF outcome.kind = "hang" THEN Attempt(api_name, FALSE, NoResult, "timeout")
    ELSE IF outcome.kind = "raise" THEN Attempt(api_name, FALSE, NoResult, "error")
    ELSE IF Usable(outcome.result, timestamps)
         THEN Attempt(api_name, TRUE, outcome.result, "")
         ELSE Attempt(api_name, FALSE, NoResult, "no_results")

\* a response object; validation, mood_analysis and metadata record whether
\* the key is present, timestamp whether the error carries one
Response(status, data, message, validation) ==
    [status |-> status, data |-> data, message |-> message, timestamp |-> status = "error",
     validation |-> validation, mood_analysis |-> FALSE, metadata |-> FALSE]

\* no response object (None)
NoResponse == [status |-> "none", data |-> NoResult, message |-> "", timestamp |-> FALSE,
               validation |-> FALSE, mood_analysis |-> FALSE, metadata |-> FALSE]

\* the keys of the dictionary a response is, and those of its error object
ResponseKeys(r) ==
    IF r.status = "error" THEN {"status", "error"}
    ELSE {"status", "data"}
         \cup (IF r.validation THEN {"validation"} ELSE {})
         \cup (IF r.mood_analysis THEN {"mood_analysis"} ELSE {})
         \cup (IF r.metadata THEN {"metadata"} ELSE {})

ErrorKeys(r) ==
    IF r.status = "error"
    THEN {"message"} \cup (IF r.timestamp THEN {"timestamp"} ELSE {})
    ELSE {}

\* a faulty variant: the error object has no timestamp
ErrorResponseUnstamped(message) ==
    [Response("error", NoResult, message, FALSE) EXCEPT !.timestamp = FALSE]

\* the error responses: {"status": "error", "error": {"message", "timestamp"}}
ErrorResponse(message) == Response("error", NoResult, message, FALSE)

\* the success response of the parallel branch: validation info is attached
\* when round(song_match, 3) < 1.0
ParallelSuccess(valid_result) ==
    Response("success", valid_result.result, "",
             valid_result.validation.song_match[1] * 10000
                 < 9995 * valid_result.validation.song_match[2])

\* a faulty variant: a batch without a valid match is reported as no lyrics
ParallelVerdictNoLyrics(validation) ==
    IF validation.has_valid_match
    THEN ParallelSuccess(validation.valid_results[1])
    ELSE ErrorResponse("No lyrics found")

\* the response of the parallel branch for a truthy result
ParallelVerdict(validation) ==
    IF validation.has_valid_match
    THEN ParallelSuccess(validation.valid_results[1])
    ELSE ErrorResponse("Found results but none matched")

\* the part of fetch_lyrics_controller after fetch_lyrics_parallel returned
AfterParallel(artist_name, song_title, result, attempts) ==
    IF result # NoResult
    THEN ParallelVerdict(validate_and_filter_results(artist_name, song_title, attempts,
                                                     <<ThresholdNum, ThresholdDen>>))
    ELSE ErrorResponse("No lyrics found")

\* a faulty variant: a result that fails validation is recorded as no_results
SequentialVerdictUnrecorded(validation) ==
    IF validation.has_valid_match
    THEN [accepted |-> TRUE, status |-> "",
          response |-> Response("success", validation.valid_results[1].result, "", FALSE)]
    ELSE [accepted |-> FALSE, status |-> "no_results", response |-> NoResponse]

\* one turn of the sequential loop on what the adapter did: the response if
\* the result is accepted, else the status recorded for the provider
SequentialVerdict(validation) ==
    IF validation.has_valid_match
    THEN [accepted |-> TRUE, status |-> "",
          response |-> Response("success", validation.valid_results[1].result, "", FALSE)]
    ELSE [accepted |-> FALSE, status |-> "validation_failed", response |-> NoResponse]

\* a faulty variant: an exception of the adapter ends the loop with the error
SequentialTurnStopsOnRaise(artist_name, song_title, timestamps, api_name, outcome) ==
    IF outcome.kind = "raise"
    THEN [accepted |-> TRUE, status |-> "error", response |-> ErrorResponse("No lyrics found")]
    ELSE IF Usable(outcome.result, timestamps)
    THEN SequentialVerdict(validate_and_filter_results(
             artist_name, song_title, <<Attempt(api_name, TRUE, outcome.result, "")>>,
             <<ThresholdNum, ThresholdDen>>))
    ELSE [accepted |-> FALSE, status |-> "no_results", response |-> NoResponse]

SequentialTurn(artist_name, song_title, timestamps, api_name, outcome) ==
    IF outcome.kind = "raise"
    THEN [accepted |-> FALSE, status |-> "error", response |-> NoResponse]
    ELSE IF Usable(outcome.result, timestamps)
    THEN SequentialVerdict(validate_and_filter_results(
             artist_name, song_title, <<Attempt(api_name, TRUE, outcome.result, "")>>,
             <<ThresholdNum, ThresholdDen>>))
    ELSE [accepted |-> FALSE, status |-> "no_results", response |-> NoResponse]

\* the for loop of fetch_lyrics_parallel over the finished tasks, read in
\* order: the attempts up to the first success (all of them if none succeeds)
\* a faulty variant: the loop stops at the last success of the finished tasks
LastSuccess(atts) ==
    IF \E i \in DOMAIN atts : atts[i].success
    THEN CHOOSE i \in DOMAIN atts :
             atts[i].success /\ \A j \in DOMAIN atts : atts[j].success => j <= i
    ELSE 0

FirstSuccess(atts) == MinOr({i \in DOMAIN atts : atts[i].success}, 0)

\* a faulty variant: the loop goes on reading after a success
ReadPastSuccess(atts, first) == atts

ReadUpTo(atts, first) == IF first = 0 THEN atts ELSE SubSeq(atts, 1, first)

\* a faulty variant: the loop reads every finished task, past a success
CollectedAll(atts) == atts

Collected(atts) == ReadUpTo(atts, FirstSuccess(atts))

(***************************************************************************)
(* cache.py: keys and entries                                              *)
(***************************************************************************)
CACHE_VERSION == "v2"

\* the time an entry lives, in ticks of the clock
CACHE_TTL == 2

\* the clock of the model stops at this tick
MaxTime == 5

\* s or "" on an optional string
OrEmpty(s) == IF Truthy(s) THEN s ELSE <<>>

\* a faulty variant: artist and song enter the payload as given, neither
\* trimmed nor lower-cased
KeyPayloadAsGiven(artist, song, timestamps, sequence, fast, mood, metadata) ==
    [v |-> CACHE_VERSION,
     artist |-> OrEmpty(artist),
     song |-> OrEmpty(song),
     timestamps |-> timestamps,
     sequence |-> OrEmpty(sequence),
     fast |-> fast,
     mood |-> mood,
     metadata |-> metadata]

\* the payload dictionary of make_cache_key
KeyPayload(artist, song, timestamps, sequence, fast, mood, metadata) ==
    [v |-> CACHE_VERSION,
     artist |-> LowerStr(Strip(OrEmpty(artist))),
     song |-> LowerStr(Strip(OrEmpty(song))),
     timestamps |-> timestamps,
     sequence |-> OrEmpty(sequence),
     fast |-> fast,
     mood |-> mood,
     metadata |-> metadata]

\* json.dumps(payload, sort_keys=True): the values in the order of the sorted keys
DumpSorted(payload) ==
    <<payload.artist, payload.fast, payload.metadata, payload.mood, payload.sequence,
      payload.song, payload.timestamps, payload.v>>

\* hashlib.sha256(raw).hexdigest(): distinct texts are taken to have distinct
\* digests, so the digest is represented by the text it is the digest of
Sha256(raw) == [sha256 |-> raw]

\* a faulty variant: the mood flag is left out of the payload
make_cache_key_without_mood(artist, song, timestamps, sequence, fast, mood, metadata) ==
    Sha256(DumpSorted(KeyPayload(artist, song, timestamps, sequence, fast, FALSE, metadata)))

\* cache.make_cache_key
make_cache_key(artist, song, timestamps, sequence, fast, mood, metadata) ==
    Sha256(DumpSorted(KeyPayload(artist, song, timestamps, sequence, fast, mood, metadata)))

\* a member of a JSON object: its key and its value, whose type is "number",
\* "string", "null" or "object"
Member(key, type, num, obj) == [key |-> key, type |-> type, num |-> num, obj |-> obj]

\* what a file holds: kind is "object" (a JSON object with these members),
\* "array" (JSON that is not an object), "invalid" (not JSON, as the start of
\* an entry whose write broke off) or "unreadable" (the file cannot be opened)
Text(kind, members) == [kind |-> kind, members |-> members]

\* the text json.dump writes for an entry
DumpEntry(expiry, result) ==
    Text("object", << Member("expiry", "number", expiry, NoResponse),
                      Member("result", "object", 0, result) >>)

\* json.load raises on text
Unparseable(text) == text.kind = "invalid"

\* data has the key
HasMember(text, key) == \E i \in DOMAIN text.members : text.members[i].key = key

MemberOf(text, key) ==
    text.members[CHOOSE i \in DOMAIN text.members : text.members[i].key = key]

\* data.get("expiry", 0) and data.get("result") on the parsed text
EntryExpiry(text) == IF HasMember(text, "expiry") THEN MemberOf(text, "expiry").num ELSE 0

EntryResult(text) ==
    IF HasMember(text, "result") THEN MemberOf(text, "result").obj ELSE NoResponse

CacheFile(name, content) == [name |-> name, content |-> content]

\* os.path.exists(path) for the file of key
Exists(files, key) == \E f \in files : f.name = key

ContentOf(files, key) == (CHOOSE f \in files : f.name = key).content

\* os.remove(path)
Remove(files, key) == {f \in files : f.name # key}

\* the exceptions met in cache.py, all of them subclasses of Exception
Exceptions == {"OSError", "JSONDecodeError", "AttributeError", "TypeError"}

\* the exception the try block of load_from_cache meets on text, "" if none:
\* open fails, json.load fails, data has no get, or time() is compared with
\* something that is not a number
LoadException(text) ==
    IF text.kind = "unreadable" THEN "OSError"
    ELSE IF Unparseable(text) THEN "JSONDecodeError"
    ELSE IF text.kind # "object" THEN "AttributeError"
    ELSE IF HasMember(text, "expiry") /\ MemberOf(text, "expiry").type # "number"
    THEN "TypeError"
    ELSE ""

\* a faulty variant: only the failure of json.load is handled
LoadHandlesDecodeError(exc) == exc = "JSONDecodeError"

\* except Exception  of load_from_cache
LoadHandles(exc) == exc \in Exceptions

\* the exception load_from_cache lets through to its caller, "" if none
load_raises(files, key) ==
    IF Exists(files, key) /\ LoadException(ContentOf(files, key)) # ""
          /\ ~LoadHandles(LoadException(ContentOf(files, key)))
    THEN LoadException(ContentOf(files, key))
    ELSE ""

\* a faulty variant: an entry is still served at the tick after its expiry
ExpiredLate(text, t) == t > EntryExpiry(text) + 1

\* the expiry test of load_from_cache at time t
Expired(text, t) == t > EntryExpiry(text)

\* text is removed by load_from_cache at time t: the handler of the try block
\* runs, or the entry is expired
DroppedText(text, t) ==
    IF LoadException(text) # "" THEN LoadHandles(LoadException(text)) ELSE Expired(text, t)

\* the entry of key is dropped by load_from_cache at time t
Dropped(files, key, t) == Exists(files, key) /\ DroppedText(ContentOf(files, key), t)

\* cache.load_from_cache: the value returned, NoResponse for None
load_from_cache(files, key, t) ==
    IF ~Exists(files, key) \/ Dropped(files, key, t) \/ load_raises(files, key) # ""
    THEN NoResponse
    ELSE EntryResult(ContentOf(files, key))

\* the files after load_from_cache
AfterLoad(files, key, t) == IF Dropped(files, key, t) THEN Remove(files, key) ELSE files

\* what may go wrong in save_to_cache: nothing, open fails, or the write
\* breaks off after open has emptied the file
SaveFaults == {"none", "open", "write"}

\* the exception the try block of save_to_cache meets under fault, "" if none
SaveException(fault) == IF fault = "none" THEN "" ELSE "OSError"

\* a faulty variant: save_to_cache handles no exception
SaveHandlesNothing(exc) == FALSE

\* except Exception  of save_to_cache
SaveHandles(exc) == exc \in Exceptions

\* the exception save_to_cache lets through to its caller, "" if none
save_raises(fault) ==
    IF SaveException(fault) # "" /\ ~SaveHandles(SaveException(fault))
    THEN SaveException(fault)
    ELSE ""

\* a faulty variant: the entry is written with the current time as its expiry
save_without_ttl(files, key, result, t, fault) ==
    Remove(files, key) \cup {CacheFile(key, DumpEntry(t, result))}

\* cache.save_to_cache: the files after the call at time t
save_to_cache(files, key, result, t, fault) ==
    IF fault = "open" THEN files
    ELSE IF fault = "write" THEN Remove(files, key) \cup {CacheFile(key, Text("invalid", <<>>))}
    ELSE Remove(files, key) \cup {CacheFile(key, DumpEntry(t + CACHE_TTL, result))}

\* os.listdir(CACHE_DIR): every name once, in any order
Listings(files) ==
    {l \in [1..Cardinality(files) -> {f.name : f \in files}] :
        \A i, j \in DOMAIN l : l[i] = l[j] => i = j}

\* the names of listing, in order, that are in names
Listed(listing, names) == SelectSeq(listing, LAMBDA n : n \in names)

\* a faulty variant: a name that cannot be removed is reported as removed
clear_cache_reports_all(listing, stuck, files) ==
    [removed |-> listing, failed |-> <<>>, files |-> {f \in files : f.name \in stuck}]

\* cache.clear_cache over listing, os.remove failing on the names in stuck:
\* the lists returned and the files left
clear_cache(listing, stuck, files) ==
    [removed |-> Listed(listing, {f.name : f \in files} \ stuck),
     failed |-> Listed(listing, stuck),
     files |-> {f \in files : f.name \in stuck}]

\* cache.cache_stats: the entry count
cache_stats(files) == [cache_files |-> Cardinality(files)]

\* one part of the text of an entry, as one write call puts it into the file
Cell(expiry, result, part) == [expiry |-> expiry, result |-> result, part |-> part]

\* the bytes a write past the end of the file leaves before it
Hole == Cell(0, NoResponse, 0)

\* the number of write calls the text of an entry takes: the text goes
\* through a buffer, and the longer one, with timed lyrics, fills it twice
EntryLength(result) == IF result.data.timed_lyrics THEN 2 ELSE 1

\* the text json.dump produces for an entry, as the parts written
EntryCells(expiry, result) ==
    [i \in 1..EntryLength(result) |-> Cell(expiry, result, i)]

\* what json.load makes of the parts in a file: the entry if they are the
\* whole text of one entry and nothing else, and no JSON otherwise
ParseCells(cells) ==
    IF Len(cells) > 0 /\ cells = EntryCells(cells[1].expiry, cells[1].result)
    THEN DumpEntry(cells[1].expiry, cells[1].result)
    ELSE Text("invalid", <<>>)

\* the file of a key: whether the path exists, and the parts it holds
Disk(exists, cells) == [exists |-> exists, cells |-> cells]

NoDisk == Disk(FALSE, <<>>)

\* a write call of one part at offset
WriteAt(cells, offset, cell) ==
    [i \in 1..Max({Len(cells), offset + 1}) |->
        IF i = offset + 1 THEN cell ELSE IF i <= Len(cells) THEN cells[i] ELSE Hole]

(***************************************************************************)
(* The environment: what is requested and what the adapters may answer     *)
(***************************************************************************)
ReqArtist == <<"A","d","e","l","e">>

ReqSong == <<"H","e","l","l","o">>

\* an artist whose name is similar to the requested one, with a ratio of 0.6
OtherArtist == <<"O","d","e","l","l">>

LyricsResult(source, artist, title, lyrics, hasTimestamps, timed_lyrics, timestamped) ==
    [source |-> source, artist |-> artist, title |-> title, lyrics |-> lyrics,
     hasTimestamps |-> hasTimestamps, timed_lyrics |-> timed_lyrics,
     timestamped |-> timestamped]

\* GeniusFetcher.fetch: plain lyrics under the artist and title Genius names
GeniusResults ==
    { LyricsResult(1, ReqArtist, ReqSong, TRUE, FALSE, FALSE, FALSE),
      LyricsResult(1, OtherArtist, ReqSong, TRUE, FALSE, FALSE, FALSE) }

\* LRCLIBFetcher.fetch: lyrics under the artist and title LRCLIB names; timed
\* lines and the flag only when timestamps are requested and a line parses
LrclibResults(timestamps) ==
    { LyricsResult(2, ReqArtist, ReqSong, TRUE, FALSE, FALSE, FALSE),
      LyricsResult(2, OtherArtist, ReqSong, TRUE, FALSE, FALSE, FALSE) }
    \cup IF timestamps
         THEN { LyricsResult(2, ReqArtist, ReqSong, TRUE, TRUE, TRUE, FALSE),
                LyricsResult(2, OtherArtist, ReqSong, TRUE, TRUE, TRUE, FALSE) }
         ELSE {}

\* SimpMusicFetcher.fetch: plain lyrics or none, raw synchronized text or
\* none; timed lines and the flag only when timestamps are requested and a
\* line of the raw text parses
SimpMusicResults(timestamps) ==
    { LyricsResult(3, ReqArtist, ReqSong, TRUE, FALSE, FALSE, FALSE),
      LyricsResult(3, ReqArtist, ReqSong, FALSE, FALSE, FALSE, TRUE),
      LyricsResult(3, ReqArtist, ReqSong, FALSE, FALSE, FALSE, FALSE) }
    \cup IF timestamps
         THEN { LyricsResult(3, ReqArtist, ReqSong, TRUE, TRUE, TRUE, TRUE) }
         ELSE {}

\* YoutubeFetcher.fetch: lyrics under the requested artist and title, with
\* timed lines when YouTube Music has them
YoutubeResults ==
    { LyricsResult(4, ReqArtist, ReqSong, TRUE, FALSE, FALSE, FALSE),
      LyricsResult(4, ReqArtist, ReqSong, TRUE, TRUE, TRUE, FALSE) }

\* LyricsOvhFetcher.fetch: plain lyrics under the requested artist and title
LyricsOvhResults == { LyricsResult(5, ReqArtist, ReqSong, TRUE, FALSE, FALSE, FALSE) }

\* ChartLyricsFetcher.fetch: plain lyrics under the requested artist and title
ChartLyricsResults == { LyricsResult(6, ReqArtist, ReqSong, TRUE, FALSE, FALSE, FALSE) }

\* the results adapter p may return
ResultShapes(p, timestamps) ==
    CASE p = 1 -> GeniusResults
      [] p = 2 -> LrclibResults(timestamps)
      [] p = 3 -> SimpMusicResults(timestamps)
      [] p = 4 -> YoutubeResults
      [] p = 5 -> LyricsOvhResults
      [] p = 6 -> ChartLyricsResults

\* what a call of adapter p may do: raise, give no answer in time, return
\* None or return a result
AllOutcomes(p, timestamps) ==
    {Outcome("raise", NoResult), Outcome("hang", NoResult), Outcome("returned", NoResult)}
    \cup {Outcome("returned", r) : r \in ResultShapes(p, timestamps)}

\* the kind of an outcome: how the call ended and what the result carries
OutcomeKind(o) ==
    <<o.kind, o.result.artist, o.result.lyrics, o.result.hasTimestamps, o.result.timestamped>>

AllKinds ==
    UNION {{OutcomeKind(o) : o \in AllOutcomes(p, TRUE)} : p \in DOMAIN FETCHER_MAP}

\* the answers explored for a call of fetch_lyrics_controller: all but the
\* result without any lyric text
ControllerKinds ==
    AllKinds \ {OutcomeKind(Outcome("returned",
                    LyricsResult(3, ReqArtist, ReqSong, FALSE, FALSE, FALSE, FALSE)))}

\* the sequence strings a caller may send: "", "2,3", "3,2", "2,3,4", "1",
\* "2,2", "7", "0", ",", "x", "1,2,3,4,5,6,1"
SequenceStrings ==
    { <<>>,
      <<"2",",","3">>, <<"3",",","2">>, <<"2",",","3",",","4">>,
      <<"1">>, <<"2",",","2">>, <<"7">>, <<"0">>, <<",">>, <<"x">>,
      <<"1",",","2",",","3",",","4",",","5",",","6",",","1">> }

Request(artist_name, song_title, timestamps, pass_param, sequence, fast_mode, mood, metadata) ==
    [artist_name |-> artist_name, song_title |-> song_title, timestamps |-> timestamps,
     pass_param |-> pass_param, sequence |-> sequence, fast_mode |-> fast_mode,
     mood |-> mood, metadata |-> metadata]

\* the calls of fetch_lyrics_controller explored
ControllerRequests ==
    { Request(ReqArtist, ReqSong, ts, TRUE, sq, FALSE, FALSE, FALSE) :
        ts \in BOOLEAN, sq \in SequenceStrings }
    \cup { Request(ReqArtist, ReqSong, ts, TRUE, sq, TRUE, FALSE, FALSE) :
              ts \in BOOLEAN, sq \in {<<"2",",","2">>, <<"1">>, <<"x">>} }
    \cup { Request(ReqArtist, ReqSong, ts, FALSE, NoneStr, TRUE, FALSE, FALSE) :
              ts \in BOOLEAN }
    \cup { Request(ReqArtist, ReqSong, ts, FALSE, sq, FALSE, FALSE, FALSE) :
              ts \in BOOLEAN, sq \in {<<"7">>, <<"2",",","3">>} }
    \cup { Request(ReqArtist, ReqSong, TRUE, FALSE, NoneStr, FALSE, FALSE, FALSE) }

(***************************************************************************)
(* State                                                                   *)
(***************************************************************************)
VARIABLES
    req,          \* the arguments of the running fetch_lyrics_controller call
    pc,           \* "called", "seq_wait", "race_wait", "done"
    mode,         \* "none", "sequential", "parallel"
    fetcher_ids,  \* the sequence being executed
    idx,          \* sequential mode: index in fetcher_ids of the awaited adapter
    attempts,     \* the attempts list
    taskState,    \* parallel mode, per id: "none", "running", "finished" (done,
                  \* not yet seen by the loop), "collected", "discarded" (done
                  \* but never read), "cancelled"
    taskAttempt,  \* parallel mode, per id: what the finished task returned; for a
                  \* cancelled task, what its call still produced in the background
    invoked,      \* history: the ids whose adapter was called, in call order
    answered,     \* history: per id what its adapter call did
    response,     \* what fetch_lyrics_controller returned
    answers,      \* the kinds of answer the adapters give in this run of the model
    now,          \* time(), in ticks
    cache_files,  \* the files of CACHE_DIR: [name, expiry, result]
    stored,       \* history: per key the last save_to_cache, [name, result, at]
                  \* and the request it was made for
    cacheOp,      \* history: the last cache operation and what it returned
    http,         \* the last answer of the /lyrics/ handler
    keyArgs,      \* two argument lists of make_cache_key
    fingerprints, \* the keys computed for keyArgs
    server,       \* "main" (main.py on the event loop) or "router" (the routes
                  \* of router.py, served by threads)
    disk,         \* the file of one key as the system calls see it
    calls,        \* per request in service: its cache call and how far it got
    cleared,      \* what the last clear_cache returned
    matchArgs,    \* the arguments of a call of validate_lyrics_match
    verdicts      \* what split_artists and validate_lyrics_match returned for them

orchVars == <<req, pc, mode, fetcher_ids, idx, attempts, taskState, taskAttempt,
              invoked, answered, response>>

cacheVars == <<now, cache_files, stored, cacheOp>>

keyVars == <<keyArgs, fingerprints>>

ioVars == <<server, disk, calls, cleared>>

matchVars == <<matchArgs, verdicts>>

vars == <<orchVars, answers, cacheVars, http, keyVars, ioVars, matchVars>>

ProviderIds == DOMAIN FETCHER_MAP

\* what adapter p may do when called
ProviderOutcomes(p) == {o \in AllOutcomes(p, req.timestamps) : OutcomeKind(o) \in answers}

\* all orders in which a set can be iterated
Orders(S) ==
    {f \in [1..Cardinality(S) -> S] : \A i, j \in 1..Cardinality(S) : i # j => f[i] # f[j]}

(***************************************************************************)
(* fetch_lyrics_controller, sequential branch                              *)
(***************************************************************************)
\* the attempts recorded for the unconfigured fetchers ids[i..stop-1]
Skipped(ids, i, stop) ==
    [k \in 1..(stop - i) |-> Attempt(FETCHER_MAP[ids[i + k - 1]], FALSE, NoResult,
                                     "not_configured")]

\* the loop over ids from index i on, up to the adapter call at index stop, or
\* to the end of the sequence when stop exceeds it; atts: the attempts so far
SeqAdvanceTo(ids, i, stop, atts) ==
    /\ attempts' = atts \o Skipped(ids, i, stop)
    /\ IF stop > Len(ids)
       THEN /\ response' = ErrorResponse("No lyrics found")
            /\ pc' = "done"
            /\ idx' = 0
            /\ invoked' = invoked
       ELSE /\ response' = response
            /\ pc' = "seq_wait"
            /\ idx' = stop
            /\ invoked' = Append(invoked, ids[stop])

\* a faulty variant: a provider that was turned down is called a second time
SeqAdvanceRetry(ids, i, atts) ==
    IF i > 1 /\ Cardinality({k \in DOMAIN invoked : invoked[k] = ids[i - 1]}) < 2
    THEN SeqAdvanceTo(ids, i, i - 1, atts)
    ELSE SeqAdvanceTo(ids, i,
                      MinOr({j \in i..Len(ids) : ids[j] \in ConfiguredFetchers}, Len(ids) + 1),
                      atts)

SeqAdvance(ids, i, atts) ==
    SeqAdvanceTo(ids, i,
                 MinOr({j \in i..Len(ids) : ids[j] \in ConfiguredFetchers}, Len(ids) + 1),
                 atts)

\* the awaited adapter call of the sequential loop never returns: the await
\* in the loop has no wait_for around it, so the loop stays at this call
SeqHang ==
    /\ pc = "seq_wait"
    /\ answered[fetcher_ids[idx]].kind # "hang"
    /\ Outcome("hang", NoResult) \in ProviderOutcomes(fetcher_ids[idx])
    /\ answered' = [answered EXCEPT ![fetcher_ids[idx]] = Outcome("hang", NoResult)]
    /\ UNCHANGED <<req, pc, mode, fetcher_ids, idx, attempts, taskState, taskAttempt,
                   invoked, response>>
    /\ UNCHANGED <<answers, cacheVars, http, keyVars, ioVars, matchVars>>

\* the awaited adapter call of the sequential loop completes with outcome o;
\* a call that hangs does not complete
SeqComplete ==
    /\ pc = "seq_wait"
    /\ answered[fetcher_ids[idx]].kind # "hang"
    /\ \E o \in ProviderOutcomes(fetcher_ids[idx]) :
        /\ o.kind # "hang"
        /\ answered' = [answered EXCEPT ![fetcher_ids[idx]] = o]
        /\ \E turn \in {SequentialTurn(req.artist_name, req.song_title, req.timestamps,
                                       FETCHER_MAP[fetcher_ids[idx]], o)} :
            IF turn.accepted
            THEN /\ response' = turn.response
                 /\ pc' = "done"
                 /\ UNCHANGED <<idx, attempts, invoked>>
            ELSE SeqAdvance(fetcher_ids, idx + 1,
                            Append(attempts, Attempt(FETCHER_MAP[fetcher_ids[idx]], FALSE,
                                                     NoResult, turn.status)))
    /\ UNCHANGED <<req, mode, fetcher_ids, taskState, taskAttempt>>
    /\ UNCHANGED <<answers, cacheVars, http, keyVars, ioVars, matchVars>>

(***************************************************************************)
(* fetch_lyrics_parallel                                                   *)
(***************************************************************************)
\* the ids for which fetch_lyrics_parallel creates a task, in order
TaskIds(ids) == SelectSeq(ids, LAMBDA p : p \in DOMAIN FETCHER_MAP /\ p \in ConfiguredFetchers)

\* a running task finishes: fetch_with_timeout returns its attempt
TaskComplete(p) ==
    /\ pc = "race_wait"
    /\ taskState[p] = "running"
    /\ \E o \in ProviderOutcomes(p) :
        /\ answered' = [answered EXCEPT ![p] = o]
        /\ taskAttempt' = [taskAttempt EXCEPT ![p] =
                              fetch_with_timeout(FETCHER_MAP[p], o, req.timestamps)]
    /\ taskState' = [taskState EXCEPT ![p] = "finished"]
    /\ UNCHANGED <<req, pc, mode, fetcher_ids, idx, attempts, invoked, response>>
    /\ UNCHANGED <<answers, cacheVars, http, keyVars, ioVars, matchVars>>

\* a faulty variant: the pending tasks are cancelled after any attempt read
AfterCollectCancelsAlways(states, read, success) ==
    [p \in DOMAIN states |->
        IF p \in read THEN "collected"
        ELSE IF states[p] = "running" THEN "cancelled"
        ELSE IF success /\ states[p] = "finished" THEN "discarded"
        ELSE states[p]]

\* a faulty variant: a success leaves the pending tasks running
AfterCollectNoCancel(states, read, success) ==
    [p \in DOMAIN states |->
        IF p \in read THEN "collected"
        ELSE IF ~success THEN states[p]
        ELSE IF states[p] = "finished" THEN "discarded"
        ELSE states[p]]

\* the task states after the loop read the tasks of set read out of the
\* finished ones; with a success among them the pending tasks are cancelled
\* and the finished tasks not read are dropped
AfterCollect(states, read, success) ==
    [p \in DOMAIN states |->
        IF p \in read THEN "collected"
        ELSE IF ~success THEN states[p]
        ELSE IF states[p] = "finished" THEN "discarded"
        ELSE IF states[p] = "running" THEN "cancelled"
        ELSE states[p]]

\* fetch_lyrics_parallel returns (result, attempts) to fetch_lyrics_controller
ParallelReturn(result, batch) ==
    /\ response' = AfterParallel(req.artist_name, req.song_title, result, batch)
    /\ pc' = "done"

\* a faulty variant: a success that does not validate is passed over and the
\* race goes on waiting for the tasks still pending
RaceCollectAwaitsValid(order, got) ==
    /\ attempts' = attempts \o got
    /\ \E ok \in {got[Len(got)].success
                    /\ validate_and_filter_results(req.artist_name, req.song_title,
                                                   <<got[Len(got)]>>,
                                                   <<ThresholdNum, ThresholdDen>>).has_valid_match} :
        /\ taskState' = AfterCollect(taskState, {order[i] : i \in DOMAIN got}, ok)
        /\ IF ok
           THEN ParallelReturn(got[Len(got)].result, attempts \o got)
           ELSE IF \A p \in DOMAIN taskState : taskState[p] # "running"
           THEN ParallelReturn(NoResult, attempts \o got)
           ELSE UNCHANGED <<response, pc>>

\* a faulty variant: the loop gives up after one wake-up without a success
RaceCollectOneWake(order, got) ==
    /\ attempts' = attempts \o got
    /\ taskState' = AfterCollect(taskState, {order[i] : i \in DOMAIN got},
                                 got[Len(got)].success)
    /\ IF got[Len(got)].success
       THEN ParallelReturn(got[Len(got)].result, attempts \o got)
       ELSE ParallelReturn(NoResult, attempts \o got)

\* a faulty variant: without a success the loop waits on, with no task left
RaceCollectWaitsOn(order, got) ==
    /\ attempts' = attempts \o got
    /\ taskState' = AfterCollect(taskState, {order[i] : i \in DOMAIN got},
                                 got[Len(got)].success)
    /\ IF got[Len(got)].success
       THEN ParallelReturn(got[Len(got)].result, attempts \o got)
       ELSE UNCHANGED <<response, pc>>

\* the loop body for the finished tasks read in order, got being their
\* attempts up to the first success
RaceCollect(order, got) ==
    /\ attempts' = attempts \o got
    /\ taskState' = AfterCollect(taskState, {order[i] : i \in DOMAIN got},
                                 got[Len(got)].success)
    /\ IF got[Len(got)].success
       THEN ParallelReturn(got[Len(got)].result, attempts \o got)
       ELSE IF \A p \in DOMAIN taskState : taskState[p] # "running"
       THEN ParallelReturn(NoResult, attempts \o got)
       ELSE UNCHANGED <<response, pc>>

\* asyncio.wait returns the set of finished tasks; the loop reads them in the
\* set's iteration order, stops at the first success, cancels what is still
\* pending and returns to fetch_lyrics_controller, which validates the batch
RaceWake ==
    /\ pc = "race_wait"
    /\ \E p \in DOMAIN taskState : taskState[p] = "finished"
    /\ \E order \in Orders({p \in DOMAIN taskState : taskState[p] = "finished"}) :
          RaceCollect(order, Collected([i \in DOMAIN order |-> taskAttempt[order[i]]]))
    /\ UNCHANGED <<req, mode, fetcher_ids, idx, taskAttempt, invoked, answered>>
    /\ UNCHANGED <<answers, cacheVars, http, keyVars, ioVars, matchVars>>

\* the adapters that run their library calls with run_in_executor: the
\* thread of such a call cannot be cancelled and runs to its end
ExecutorFetchers == {1, 4}

\* the call of a cancelled task finishes in the background after
\* fetch_lyrics_parallel returned; nothing reads what it produced
BackgroundComplete(p) ==
    /\ pc = "done"
    /\ taskState[p] = "cancelled"
    /\ p \in ExecutorFetchers
    /\ taskAttempt[p] = NoAttempt
    /\ \E o \in ProviderOutcomes(p) :
        /\ o.kind # "hang"
        /\ taskAttempt' = [taskAttempt EXCEPT ![p] =
                              fetch_with_timeout(FETCHER_MAP[p], o, req.timestamps)]
    /\ UNCHANGED <<req, pc, mode, fetcher_ids, idx, attempts, taskState, invoked,
                   answered, response>>
    /\ UNCHANGED <<answers, cacheVars, http, keyVars, ioVars, matchVars>>

(***************************************************************************)
(* fetch_lyrics_controller: sequence selection and dispatch                *)
(***************************************************************************)
\* a faulty variant: the sequence is parsed in fast mode as well
CustomSequenceInFastMode(r) == r.pass_param /\ Truthy(r.sequence)

\* the elif branch is taken: a custom sequence is parsed
CustomSequence(r) == ~r.fast_mode /\ r.pass_param /\ Truthy(r.sequence)

\* the sequence fetch_lyrics_controller determines
SelectSequence(r) ==
    IF r.fast_mode THEN FAST_MODE_SEQUENCE
    ELSE IF r.pass_param /\ Truthy(r.sequence) THEN ParseSequence(r.sequence)
    ELSE IF r.timestamps THEN DEFAULT_SYNCED_SEQUENCE ELSE DEFAULT_PLAIN_SEQUENCE

\* the early returns of fetch_lyrics_controller: the error message, "" if none
SequenceError(r) ==
    IF ~CustomSequence(r) THEN ""
    ELSE IF SequenceFormatError(r.sequence) THEN "Invalid sequence format"
    ELSE IF InvalidFetcherIds(ParseSequence(r.sequence)) THEN "Invalid sequence"
    ELSE ""

\* fetch_lyrics_parallel up to its first await: one task per id
StartParallel(tasks) ==
    /\ mode' = "parallel"
    /\ invoked' = invoked \o tasks
    /\ taskState' = [p \in ProviderIds |-> IF p \in Range(tasks) THEN "running" ELSE "none"]
    /\ UNCHANGED <<idx, attempts>>
    /\ IF tasks = <<>>
       THEN ParallelReturn(NoResult, <<>>)
       ELSE /\ pc' = "race_wait"
            /\ response' = response

\* the sequential loop up to its first await
StartSequential(ids) ==
    /\ mode' = "sequential"
    /\ taskState' = taskState
    /\ SeqAdvance(ids, 1, <<>>)

Dispatch(r, ids) ==
    /\ fetcher_ids' = ids
    /\ IF UseParallel(r.fast_mode, r.pass_param, r.sequence, ids)
       THEN StartParallel(TaskIds(ids))
       ELSE StartSequential(ids)

\* fetch_lyrics_controller from its call to its first await or early return
ControllerEnter ==
    /\ pc = "called"
    /\ UNCHANGED <<req, taskAttempt, answered>>
    /\ UNCHANGED <<answers, cacheVars, http, keyVars, ioVars, matchVars>>
    /\ \E message \in {SequenceError(req)} :
          IF message # ""
          THEN /\ response' = ErrorResponse(message)
               /\ pc' = "done"
               /\ UNCHANGED <<mode, fetcher_ids, idx, attempts, taskState, invoked>>
          ELSE Dispatch(req, SelectSequence(req))

OrchInit ==
    /\ mode = "none"
    /\ fetcher_ids = <<>>
    /\ idx = 0
    /\ attempts = <<>>
    /\ taskState = [p \in ProviderIds |-> "none"]
    /\ taskAttempt = [p \in ProviderIds |-> NoAttempt]
    /\ invoked = <<>>
    /\ answered = [p \in ProviderIds |-> NoOutcome]
    /\ response = NoResponse

NoRequest == Request(<<>>, <<>>, FALSE, FALSE, NoneStr, FALSE, FALSE, FALSE)

\* what the handler answered: the status code and the body; lookup tells
\* whether the cache lookup of the request was a "hit" or a "miss", and fresh
\* is the result of the entry the cache held for the request when it arrived,
\* if it held one whose expiry time had not passed
Http(code, body, lookup, fresh) ==
    [code |-> code, body |-> body, lookup |-> lookup, fresh |-> fresh]

NoHttp == Http(0, NoResponse, "none", NoResponse)

\* no key
NoKey == Sha256(<<>>)

\* no file
NoText == Text("none", <<>>)

\* the content of the file of key, NoText without one
Found(files, key) == IF Exists(files, key) THEN ContentOf(files, key) ELSE NoText

\* a cache operation: the call, its key, the result passed or returned, the
\* time, the exception the call let through and what the file of the key held
\* when the call was made
CacheOp(op, key, result, at, exc, found) ==
    [op |-> op, key |-> key, result |-> result, at |-> at, exc |-> exc, found |-> found]

NoCacheOp == CacheOp("none", NoKey, NoResponse, 0, "", NoText)

\* the clock starts at a positive time, as time() is
CacheInit ==
    /\ now = 1
    /\ cache_files = {}
    /\ stored = {}
    /\ cacheOp = NoCacheOp

KeyInit ==
    /\ keyArgs = <<>>
    /\ fingerprints = <<>>

\* the lists clear_cache returned
Cleared(result) == [removed |-> result.removed, failed |-> result.failed]

NotCleared == Cleared([removed |-> <<>>, failed |-> <<>>])

\* the requests in service
Callers == {1, 2}

\* a cache call of a request: op is "none", "store" or "load"; at is
\* "idle", "open" (the store has opened the file), "exists" (the load has
\* seen the path), "remove" (the load is about to remove the file) or "done";
\* result is the result stored or returned; expiry, offset and linked belong
\* to the file the store has open; found is what the load read; wrote tells
\* whether the request has ever called save_to_cache
Call(op, at, result, expiry, offset, linked, found, wrote) ==
    [op |-> op, at |-> at, result |-> result, expiry |-> expiry, offset |-> offset,
     linked |-> linked, found |-> found, wrote |-> wrote]

NoCall == Call("none", "idle", NoResponse, 0, 0, FALSE, NoText, FALSE)

\* no call of the validator on its own
MatchInit ==
    /\ matchArgs = <<>>
    /\ verdicts = <<>>

IoInit ==
    /\ server = "main"
    /\ disk = NoDisk
    /\ calls = [c \in Callers |-> NoCall]
    /\ cleared = NotCleared

\* one call of fetch_lyrics_controller, with adapters that may answer anything
Init ==
    /\ req \in ControllerRequests
    /\ pc = "called"
    /\ answers = ControllerKinds
    /\ OrchInit
    /\ CacheInit
    /\ http = NoHttp
    /\ KeyInit
    /\ IoInit
    /\ MatchInit

Next ==
    \/ ControllerEnter
    \/ SeqComplete
    \/ SeqHang
    \/ \E p \in ProviderIds : TaskComplete(p)
    \/ RaceWake
    \/ \E p \in ProviderIds : BackgroundComplete(p)

Spec == Init /\ [][Next]_vars

\* a step of the race: a task ends, or the loop reads the finished tasks
RaceStep == RaceWake \/ \E p \in ProviderIds : TaskComplete(p)

\* the states in which RaceStep is enabled: the race waits and a task can end
\* or has ended unread
RaceStepEnabled ==
    /\ pc = "race_wait"
    /\ \E p \in ProviderIds : taskState[p] \in {"running", "finished"}

\* the run under a fair scheduler: a race does not stand still while one of
\* its tasks can end, by its call returning or raising or by the wait_for of
\* fetch_with_timeout, or while asyncio.wait has finished tasks to hand over.
\* The last conjunct is WF_vars(RaceStep) with the enabling condition of
\* RaceStep written as the state predicate RaceStepEnabled
FairSpec ==
    /\ Init
    /\ [][Next]_vars
    /\ ([]<>(~RaceStepEnabled) \/ []<><<RaceStep>>_vars)

(***************************************************************************)
(* The cache on its own: load_from_cache, save_to_cache and clear_cache     *)
(* called in any order while time passes; every file operation succeeds    *)
(***************************************************************************)
\* the keys and results the cache is exercised with
CacheKeys == {make_cache_key(ReqArtist, ReqSong, ts, NoneStr, TRUE, FALSE, FALSE) : ts \in BOOLEAN}

CacheResults ==
    { Response("success", r, "", FALSE) :
        r \in { LyricsResult(2, ReqArtist, ReqSong, TRUE, FALSE, FALSE, FALSE),
                LyricsResult(3, ReqArtist, ReqSong, TRUE, TRUE, TRUE, TRUE) } }

\* load_from_cache(key) is called
LoadStep(key) ==
    /\ cache_files' = AfterLoad(cache_files, key, now)
    /\ cacheOp' = CacheOp("load", key, load_from_cache(cache_files, key, now), now,
                          load_raises(cache_files, key), Found(cache_files, key))
    /\ UNCHANGED <<now, stored>>

\* the saves remembered after save_to_cache(key, result) under fault
StoredAfter(saves, key, result, t, fault) ==
    IF fault = "open" THEN saves
    ELSE IF fault = "write" THEN {e \in saves : e.name # key}
    ELSE {e \in saves : e.name # key}
         \cup {[name |-> key, result |-> result, at |-> t, by |-> req]}

\* save_to_cache(key, result) is called and meets fault
SaveStep(key, result, fault) ==
    /\ cache_files' = save_to_cache(cache_files, key, result, now, fault)
    /\ stored' = StoredAfter(stored, key, result, now, fault)
    /\ cacheOp' = CacheOp("save", key, result, now, save_raises(fault), Found(cache_files, key))
    /\ UNCHANGED now

\* clear_cache() is called, lists the directory as listing and cannot remove
\* the names in stuck
ClearStep(listing, stuck) ==
    /\ cache_files' = clear_cache(listing, stuck, cache_files).files
    /\ stored' = {e \in stored : e.name \in stuck}
    /\ cacheOp' = CacheOp("clear", NoKey, NoResponse, now, "", NoText)
    /\ UNCHANGED now

CacheLoad ==
    /\ \E key \in CacheKeys : LoadStep(key)
    /\ UNCHANGED <<orchVars, answers, http, keyVars, ioVars, matchVars>>

CacheSave ==
    /\ \E key \in CacheKeys, result \in CacheResults : SaveStep(key, result, "none")
    /\ UNCHANGED <<orchVars, answers, http, keyVars, ioVars, matchVars>>

\* clear_cache() is called; any of the files may resist removal
CacheClear ==
    /\ \E listing \in Listings(cache_files), stuck \in SUBSET CacheKeys :
          /\ ClearStep(listing, stuck)
          /\ cleared' = Cleared(clear_cache(listing, stuck, cache_files))
    /\ UNCHANGED <<orchVars, answers, http, keyVars, server, disk, calls, matchVars>>

\* time passes
Tick ==
    /\ now < MaxTime
    /\ now' = now + 1
    /\ UNCHANGED <<cache_files, stored, cacheOp, orchVars, answers, http, keyVars, ioVars, matchVars>>

CacheSpecInit ==
    /\ req = NoRequest
    /\ pc = "idle"
    /\ answers = {}
    /\ OrchInit
    /\ CacheInit
    /\ http = NoHttp
    /\ KeyInit
    /\ IoInit
    /\ MatchInit

CacheNext == CacheLoad \/ CacheSave \/ CacheClear \/ Tick

CacheSpec == CacheSpecInit /\ [][CacheNext]_vars

(***************************************************************************)
(* make_cache_key on two argument lists                                    *)
(***************************************************************************)
KeyArguments(artist, song, timestamps, sequence, fast, mood, metadata) ==
    [artist |-> artist, song |-> song, timestamps |-> timestamps, sequence |-> sequence,
     fast |-> fast, mood |-> mood, metadata |-> metadata]

\* the argument lists explored: "Adele", "ADELE", " Adele" and another artist;
\* "Hello" and "hello "; no sequence, "" and "2,3"; every flag
KeyArgumentLists ==
    { KeyArguments(a, t, ts, sq, f, m, md) :
        a \in {ReqArtist, <<"A","D","E","L","E">>, <<" ">> \o ReqArtist, OtherArtist},
        t \in {ReqSong, <<"h","e","l","l","o"," ">>},
        ts \in BOOLEAN,
        sq \in {NoneStr, <<>>, <<"2",",","3">>},
        f \in BOOLEAN, m \in BOOLEAN, md \in BOOLEAN }

ArgumentNames == {"artist", "song", "timestamps", "sequence", "fast", "mood", "metadata"}

\* the arguments in which two lists differ
Changed(a, b) == {n \in ArgumentNames : a[n] # b[n]}

KeyOf(a) ==
    make_cache_key(a.artist, a.song, a.timestamps, a.sequence, a.fast, a.mood, a.metadata)

\* make_cache_key is called on each of the two lists
ComputeKeys ==
    /\ fingerprints = <<>>
    /\ fingerprints' = <<KeyOf(keyArgs[1]), KeyOf(keyArgs[2])>>
    /\ UNCHANGED <<keyArgs, orchVars, answers, cacheVars, http, ioVars, matchVars>>

\* the largest number of arguments in which the two lists differ
MaxChanged == 2

\* two argument lists that differ in at most MaxChanged arguments
KeySpecInit ==
    /\ keyArgs \in {pair \in KeyArgumentLists \X KeyArgumentLists :
                       Cardinality(Changed(pair[1], pair[2])) <= MaxChanged}
    /\ fingerprints = <<>>
    /\ req = NoRequest
    /\ pc = "idle"
    /\ answers = {}
    /\ OrchInit
    /\ CacheInit
    /\ http = NoHttp
    /\ IoInit
    /\ MatchInit

KeyNext == ComputeKeys

KeySpec == KeySpecInit /\ [][KeyNext]_vars

(***************************************************************************)
(* The /lyrics/ handler of main.py: one request at a time, from the cache   *)
(* lookup to the answer, while time passes and the cache may be cleared    *)
(***************************************************************************)
\* the requests sent: a fast request; a request with the custom sequence
\* "3", timestamps, mood and metadata; one with the sequence "7"; one
\* without an artist; one with the pass flag and no sequence
ServerRequests ==
    { Request(ReqArtist, ReqSong, FALSE, FALSE, NoneStr, TRUE, FALSE, FALSE),
      Request(ReqArtist, ReqSong, TRUE, TRUE, <<"3">>, FALSE, TRUE, TRUE),
      Request(ReqArtist, ReqSong, FALSE, TRUE, <<"7">>, FALSE, FALSE, FALSE),
      Request(<<" ">>, ReqSong, FALSE, FALSE, NoneStr, FALSE, FALSE, FALSE),
      Request(ReqArtist, ReqSong, FALSE, TRUE, NoneStr, FALSE, FALSE, FALSE) }

\* the key the handler computes for request r
RequestKey(r) ==
    make_cache_key(r.artist_name, r.song_title, r.timestamps, r.sequence, r.fast_mode,
                   r.mood, r.metadata)

\* the result of the entry for key if its expiry time has not passed at t
FreshResult(files, key, t) ==
    IF \E f \in files : f.name = key /\ t <= EntryExpiry(f.content)
    THEN EntryResult(ContentOf(files, key))
    ELSE NoResponse

\* the state of a handler that has not called fetch_lyrics_controller
Fresh(r) ==
    /\ req' = r
    /\ mode' = "none"
    /\ fetcher_ids' = <<>>
    /\ idx' = 0
    /\ attempts' = <<>>
    /\ taskState' = [p \in ProviderIds |-> "none"]
    /\ taskAttempt' = [p \in ProviderIds |-> NoAttempt]
    /\ invoked' = <<>>
    /\ answered' = [p \in ProviderIds |-> NoOutcome]
    /\ response' = NoResponse

\* the handler raises HTTPException(400)
BadRequest(r, message) ==
    /\ http' = Http(400, ErrorResponse(message), "none", NoResponse)
    /\ Fresh(r)
    /\ UNCHANGED <<pc, cacheVars>>

\* a faulty variant: the cached value is never served
ServeNever(cached) == FALSE

\* the test  if cached:  of the handler
ServeCached(cached) == cached # NoResponse

\* the cache lookup of the handler and what follows from it: the cached
\* value is returned, or fetch_lyrics_controller is called
Lookup(r, cached, fresh) ==
    /\ LoadStep(RequestKey(r))
    /\ Fresh(r)
    /\ IF ServeCached(cached)
       THEN /\ http' = Http(200, cached, "hit", fresh)
            /\ pc' = "idle"
       ELSE /\ http' = Http(0, NoResponse, "miss", fresh)
            /\ pc' = "called"

\* the handler on request r with artist and song stripped
Handle(r) ==
    IF r.artist_name = <<>> \/ r.song_title = <<>>
    THEN BadRequest(r, "Artist and song name are required")
    ELSE IF r.pass_param /\ ~Truthy(r.sequence)
    THEN BadRequest(r, "Sequence parameter is required when pass=true")
    ELSE Lookup(r, load_from_cache(cache_files, RequestKey(r), now),
                FreshResult(cache_files, RequestKey(r), now))

\* a request arrives
HandleRequest ==
    /\ pc = "idle"
    /\ \E r \in ServerRequests :
          Handle([r EXCEPT !.artist_name = Strip(OrEmpty(r.artist_name)),
                           !.song_title = Strip(OrEmpty(r.song_title))])
    /\ UNCHANGED <<answers, keyVars, ioVars, matchVars>>

\* the mood analysis step: mood_analysis is attached to a success whose data
\* has lyric text or timed lines
WithMood(result, mood) ==
    IF mood /\ result.status = "success" /\ (result.data.lyrics \/ result.data.timed_lyrics)
    THEN [result EXCEPT !.mood_analysis = TRUE]
    ELSE result

\* the metadata step: metadata, or metadata_error, is attached to a success
WithMetadata(result, metadata) ==
    IF metadata /\ result.status = "success"
    THEN [result EXCEPT !.metadata = TRUE]
    ELSE result

\* a faulty variant: every success is cached
CacheableAnySuccess(result) == result.status = "success"

\* the test of the handler before save_to_cache
Cacheable(result) == result.status = "success" /\ result.data.lyrics

\* except Exception  around the save_to_cache call of the handler
AnswerHandles(exc) == exc \in Exceptions

\* the handler after fetch_lyrics_controller returned result, save_to_cache
\* meeting fault if it is called: the result is returned, unless an exception
\* of save_to_cache gets past the handler
Answer(r, result, fault) ==
    IF Cacheable(result)
    THEN /\ SaveStep(RequestKey(r), result, fault)
         /\ http' = IF save_raises(fault) = "" \/ AnswerHandles(save_raises(fault))
                    THEN [http EXCEPT !.code = 200, !.body = result]
                    ELSE [http EXCEPT !.code = 500,
                                      !.body = ErrorResponse("Internal Server Error")]
    ELSE /\ http' = [http EXCEPT !.code = 200, !.body = result]
         /\ UNCHANGED cacheVars

HandlerFinish ==
    /\ pc = "done"
    /\ pc' = "idle"
    /\ Answer(req, WithMetadata(WithMood(response, req.mood), req.metadata), "none")
    /\ UNCHANGED <<req, mode, fetcher_ids, idx, attempts, taskState, taskAttempt, invoked,
                   answered, response, answers, keyVars, ioVars, matchVars>>

\* the 60 s bound of the handler passes before fetch_lyrics_controller returns
HandlerTimeout ==
    /\ pc \in {"seq_wait", "race_wait"}
    /\ pc' = "idle"
    /\ http' = [http EXCEPT !.code = 504, !.body = ErrorResponse("Request timed out")]
    /\ UNCHANGED <<req, mode, fetcher_ids, idx, attempts, taskState, taskAttempt, invoked,
                   answered, response, answers, cacheVars, keyVars, ioVars, matchVars>>

\* how run_async of router.py runs fetch_lyrics_controller under its bound:
\* with run_until_complete on the event loop of the thread, or with
\* asyncio.run in the handler of RuntimeError when the thread has no loop
RunAsyncPaths == {"run_until_complete", "asyncio.run"}

\* what run_async raises when the bound passes: in its try block the
\* TimeoutError is caught and a plain Exception raised in its place; in the
\* handler of RuntimeError the TimeoutError leaves as it is
run_async_raises(path) == IF path = "run_until_complete" THEN "Exception" ELSE "TimeoutError"

\* the except clauses of the lyrics route of router.py around run_async
RouteAnswer(exc) ==
    IF exc = "TimeoutError"
    THEN [code |-> 504, message |-> "Request timed out"]
    ELSE [code |-> 500, message |-> "Failed to fetch lyrics"]

\* the lyrics route of router.py, which otherwise proceeds as the handler of
\* main.py does: the 60 s bound of run_async passes before
\* fetch_lyrics_controller returns
RouterTimeout ==
    /\ pc \in {"seq_wait", "race_wait"}
    /\ pc' = "idle"
    /\ \E path \in RunAsyncPaths :
          http' = [http EXCEPT !.code = RouteAnswer(run_async_raises(path)).code,
                               !.body = ErrorResponse(RouteAnswer(run_async_raises(path)).message)]
    /\ UNCHANGED <<req, mode, fetcher_ids, idx, attempts, taskState, taskAttempt, invoked,
                   answered, response, answers, cacheVars, keyVars, ioVars, matchVars>>

\* the admin route that clears the cache
AdminClearCache ==
    /\ ClearStep(CHOOSE l \in Listings(cache_files) : TRUE, {})
    /\ UNCHANGED <<orchVars, answers, http, keyVars, ioVars, matchVars>>

ServerInit ==
    /\ req = NoRequest
    /\ pc = "idle"
    /\ answers = AllKinds
    /\ OrchInit
    /\ CacheInit
    /\ http = NoHttp
    /\ KeyInit
    /\ IoInit
    /\ MatchInit

ServerNext ==
    \/ HandleRequest
    \/ ControllerEnter
    \/ SeqComplete
    \/ \E p \in ProviderIds : TaskComplete(p)
    \/ RaceWake
    \/ HandlerFinish
    \/ HandlerTimeout
    \/ RouterTimeout
    \/ AdminClearCache
    \/ Tick

ServerSpec == ServerInit /\ [][ServerNext]_vars

(***************************************************************************)
(* The /lyrics/ handler on requests that differ in the pass flag only      *)
(***************************************************************************)
\* two requests with the sequence "3", with and without the pass flag
PassRequests ==
    { Request(ReqArtist, ReqSong, TRUE, ps, <<"3">>, FALSE, FALSE, FALSE) : ps \in BOOLEAN }

\* the adapters return a result or nothing
PassKinds == {k \in AllKinds : k[1] = "returned"}

\* one of the two requests arrives
PassRequest ==
    /\ pc = "idle"
    /\ \E r \in PassRequests : Handle(r)
    /\ UNCHANGED <<answers, keyVars, ioVars, matchVars>>

PassSpecInit ==
    /\ req = NoRequest
    /\ pc = "idle"
    /\ answers = PassKinds
    /\ OrchInit
    /\ CacheInit
    /\ http = NoHttp
    /\ KeyInit
    /\ IoInit
    /\ MatchInit

PassNext ==
    \/ PassRequest
    \/ ControllerEnter
    \/ SeqComplete
    \/ HandlerFinish
    \/ Tick

PassSpec == PassSpecInit /\ [][PassNext]_vars

(***************************************************************************)
(* The cache with file operations that fail and entries that are damaged:  *)
(* load_from_cache, save_to_cache and the end of the /lyrics/ handler      *)
(***************************************************************************)
\* what a damaged file may hold: text that is not JSON, JSON that is not an
\* object, a file that cannot be opened, an object without expiry, and an
\* object whose expiry is a string or null
CorruptTexts ==
    { Text("invalid", <<>>), Text("array", <<>>), Text("unreadable", <<>>) }
    \cup { Text("object", << Member("result", "object", 0, r) >>) : r \in CacheResults }
    \cup { Text("object", << Member("expiry", type, 0, NoResponse),
                             Member("result", "object", 0, r) >>) :
              type \in {"string", "null"}, r \in CacheResults }

\* text is one of the entries that cannot be served
Corrupt(text) == text \in CorruptTexts

\* what fetch_lyrics_controller may have returned to the handler
FaultResponses == CacheResults \cup {ErrorResponse("No lyrics found")}

\* the request whose answers are stored, and its key
FaultRequests == { Request(ReqArtist, ReqSong, FALSE, FALSE, NoneStr, TRUE, TRUE, FALSE) }

FaultKeys == {RequestKey(r) : r \in FaultRequests}

\* load_from_cache is called
FaultyLoad ==
    /\ \E key \in FaultKeys : LoadStep(key)
    /\ UNCHANGED <<orchVars, answers, http, keyVars, ioVars, matchVars>>

\* the file of a key is damaged from outside
DamageEntry ==
    /\ \E key \in FaultKeys, text \in CorruptTexts :
          /\ cache_files' = Remove(cache_files, key) \cup {CacheFile(key, text)}
          /\ stored' = {e \in stored : e.name # key}
          /\ cacheOp' = CacheOp("damage", key, NoResponse, now, "", Found(cache_files, key))
    /\ UNCHANGED <<now, orchVars, answers, http, keyVars, ioVars, matchVars>>

\* save_to_cache is called and may fail
FaultySave ==
    /\ \E key \in FaultKeys, result \in CacheResults, fault \in SaveFaults :
          SaveStep(key, result, fault)
    /\ UNCHANGED <<orchVars, answers, http, keyVars, ioVars, matchVars>>

\* the handler of request r got result from fetch_lyrics_controller and
\* finishes, save_to_cache failing or not
FaultyAnswer ==
    /\ pc = "idle"
    /\ \E r \in FaultRequests, result \in FaultResponses, fault \in SaveFaults :
          /\ req' = r
          /\ response' = result
          /\ Answer(r, WithMetadata(WithMood(result, r.mood), r.metadata), fault)
    /\ UNCHANGED <<pc, mode, fetcher_ids, idx, attempts, taskState, taskAttempt, invoked,
                   answered, answers, keyVars, ioVars, matchVars>>

FaultSpecInit ==
    /\ req = NoRequest
    /\ pc = "idle"
    /\ answers = {}
    /\ OrchInit
    /\ CacheInit
    /\ http = NoHttp
    /\ KeyInit
    /\ IoInit
    /\ MatchInit

FaultNext == FaultyLoad \/ FaultySave \/ FaultyAnswer \/ DamageEntry \/ Tick

FaultSpec == FaultSpecInit /\ [][FaultNext]_vars

(***************************************************************************)
(* The cache calls of two requests on the file of one key, system call by  *)
(* system call                                                             *)
(***************************************************************************)
\* the key the two requests share
SharedKey == CHOOSE k \in FaultKeys : TRUE

\* the directory as load_from_cache would find it now
DiskFiles == IF disk.exists THEN {CacheFile(SharedKey, ParseCells(disk.cells))} ELSE {}

\* the request is inside a cache call
Running(c) == calls[c].at \notin {"idle", "done"}

\* the request may enter a cache call: in main.py the handler is a coroutine
\* and the call has no await in it, so it runs to its end before another
\* request runs; the routes of router.py run in threads
MayStart(c) == server = "router" \/ \A d \in Callers \ {c} : ~Running(d)

\* save_to_cache: open(path, "w") creates the file or empties it
StoreOpen(c) ==
    /\ ~Running(c)
    /\ MayStart(c)
    /\ \E result \in CacheResults :
          calls' = [calls EXCEPT ![c] =
                       Call("store", "open", result, now + CACHE_TTL, 0, TRUE, NoText, TRUE)]
    /\ disk' = Disk(TRUE, <<>>)
    /\ UNCHANGED <<server, cleared, orchVars, answers, cacheVars, http, keyVars, matchVars>>

\* save_to_cache: the next part of the text is written where the file object
\* stands; with the last part the file is closed and the call returns
StoreWrite(c) ==
    /\ calls[c].op = "store"
    /\ calls[c].at = "open"
    /\ disk' = IF calls[c].linked
               THEN Disk(TRUE, WriteAt(disk.cells, calls[c].offset,
                                       EntryCells(calls[c].expiry, calls[c].result)
                                           [calls[c].offset + 1]))
               ELSE disk
    /\ calls' = [calls EXCEPT ![c] =
                    IF calls[c].offset + 1 = EntryLength(calls[c].result)
                    THEN Call("store", "done", calls[c].result, calls[c].expiry, 0, FALSE,
                              NoText, TRUE)
                    ELSE [calls[c] EXCEPT !.offset = @ + 1]]
    /\ UNCHANGED <<server, cleared, orchVars, answers, cacheVars, http, keyVars, matchVars>>

\* load_from_cache: os.path.exists(path)
LoadExists(c) ==
    /\ ~Running(c)
    /\ MayStart(c)
    /\ calls' = [calls EXCEPT ![c] =
                    Call("load", IF disk.exists THEN "exists" ELSE "done", NoResponse, 0, 0,
                         FALSE, NoText, calls[c].wrote)]
    /\ UNCHANGED <<disk, server, cleared, orchVars, answers, cacheVars, http, keyVars, matchVars>>

\* what open and json.load of load_from_cache get
ReadDisk == IF disk.exists THEN ParseCells(disk.cells) ELSE Text("unreadable", <<>>)

\* load_from_cache: the file is opened and read and the expiry is tested; the
\* result is returned, or the file is to be removed
LoadRead(c) ==
    /\ calls[c].op = "load"
    /\ calls[c].at = "exists"
    /\ calls' = [calls EXCEPT ![c] =
                    IF DroppedText(ReadDisk, now)
                    THEN Call("load", "remove", NoResponse, 0, 0, FALSE, ReadDisk,
                              calls[c].wrote)
                    ELSE Call("load", "done", EntryResult(ReadDisk), 0, 0, FALSE, ReadDisk,
                              calls[c].wrote)]
    /\ UNCHANGED <<disk, server, cleared, orchVars, answers, cacheVars, http, keyVars, matchVars>>

\* load_from_cache: os.remove(path) takes away whatever file the path names
\* now; a store that has it open goes on writing to a file without a name
LoadRemove(c) ==
    /\ calls[c].op = "load"
    /\ calls[c].at = "remove"
    /\ disk' = NoDisk
    /\ calls' = [d \in Callers |->
                    IF d = c
                    THEN Call("load", "done", NoResponse, 0, 0, FALSE, calls[c].found,
                              calls[c].wrote)
                    ELSE [calls[d] EXCEPT !.linked = FALSE]]
    /\ UNCHANGED <<server, cleared, orchVars, answers, cacheVars, http, keyVars, matchVars>>

\* the two requests are served by main.py or by the routes of router.py
SharedInit ==
    /\ req = NoRequest
    /\ pc = "idle"
    /\ answers = {}
    /\ OrchInit
    /\ CacheInit
    /\ http = NoHttp
    /\ KeyInit
    /\ server \in {"main", "router"}
    /\ disk = NoDisk
    /\ calls = [c \in Callers |-> NoCall]
    /\ cleared = NotCleared
    /\ MatchInit

SharedNext ==
    \/ \E c \in Callers : StoreOpen(c)
    \/ \E c \in Callers : StoreWrite(c)
    \/ \E c \in Callers : LoadExists(c)
    \/ \E c \in Callers : LoadRead(c)
    \/ \E c \in Callers : LoadRemove(c)
    \/ Tick

SharedSpec == SharedInit /\ [][SharedNext]_vars

(***************************************************************************)
(* split_artists and validate_lyrics_match on their own                    *)
(***************************************************************************)
\* the arguments of validate_lyrics_match (result) and of
\* validate_and_filter_results (attempts)
MatchArguments(artist, song, result, atts, threshold) ==
    [artist |-> artist, song |-> song, result |-> result, attempts |-> atts,
     threshold |-> threshold]

\* the requested artists explored: one name, a name that contains "and", a
\* name in capitals with a trailing blank, and two names joined by each kind
\* of separator
RequestedArtists ==
    { ReqArtist,
      <<"B","r","a","n","d","y">>,
      <<"A","D","E","L","E"," ">>,
      OtherArtist \o <<","," ">> \o ReqArtist,
      OtherArtist \o <<" ","f","t","."," ">> \o ReqArtist,
      OtherArtist \o <<"/">> \o ReqArtist,
      OtherArtist \o <<" ","a","n","d"," ">> \o ReqArtist }

\* "Hello (feat. Adele)"
FeaturedTitle == ReqSong \o <<" ","(","f","e","a","t","."," ">> \o ReqArtist \o <<")">>

RequestedSongs == {ReqSong, FeaturedTitle}

\* the artists a candidate may name: none, the requested one, a similar one,
\* a longer name that contains the requested one, and two names
ReturnedArtists ==
    { NoneStr,
      ReqArtist,
      OtherArtist,
      ReqArtist \o <<" ","A","d","k","i","n","s">>,
      <<"B","r","a","n","d","y">>,
      OtherArtist \o <<" ","&"," ">> \o ReqArtist }

ReturnedTitles == {NoneStr, ReqSong, FeaturedTitle, <<"H","a","l","l","o">>}

\* the default threshold of the validator and the one of its call sites
Thresholds == {<<1, 2>>, <<ThresholdNum, ThresholdDen>>}

\* the attempts a list may hold: a failed one, successful ones with the
\* requested artist, one with the similar artist (ratio 0.6, between the
\* two thresholds) and a successful one without result
AttemptPool ==
    { Attempt("Genius", FALSE, NoResult, "timeout"),
      Attempt("LRCLIB", TRUE, LyricsResult(2, ReqArtist, ReqSong, TRUE, FALSE, FALSE, FALSE), ""),
      Attempt("SimpMusic", TRUE,
              LyricsResult(3, OtherArtist, ReqSong, TRUE, FALSE, FALSE, FALSE), ""),
      Attempt("YouTube Music", TRUE,
              LyricsResult(4, ReqArtist, ReqSong, TRUE, FALSE, FALSE, FALSE), ""),
      Attempt("Lyrics.ovh", TRUE, NoResult, "") }

\* the longest list of attempts
MaxAttempts == 3

AttemptLists == UNION { [1..n -> AttemptPool] : n \in 0..MaxAttempts }

MatchInputs ==
    { MatchArguments(a, t, LyricsResult(2, ra, rt, TRUE, FALSE, FALSE, FALSE), <<>>, th) :
        a \in RequestedArtists, t \in RequestedSongs, ra \in ReturnedArtists,
        rt \in ReturnedTitles, th \in Thresholds }
    \cup { MatchArguments(ReqArtist, ReqSong, NoResult, atts, th) :
              atts \in AttemptLists, th \in Thresholds }

\* split_artists is called on the requested artist, validate_lyrics_match on
\* the result and validate_and_filter_results on the attempts
ApplyValidator ==
    /\ matchArgs # <<>>
    /\ verdicts = <<>>
    /\ verdicts' = << split_artists(matchArgs.artist),
                      validate_lyrics_match(matchArgs.artist, matchArgs.song,
                                            matchArgs.result, matchArgs.threshold),
                      validate_and_filter_results(matchArgs.artist, matchArgs.song,
                                                  matchArgs.attempts, matchArgs.threshold) >>
    /\ UNCHANGED <<matchArgs, orchVars, answers, cacheVars, http, keyVars, ioVars>>

MatchSpecInit ==
    /\ req = NoRequest
    /\ pc = "idle"
    /\ answers = {}
    /\ OrchInit
    /\ CacheInit
    /\ http = NoHttp
    /\ KeyInit
    /\ IoInit
    /\ matchArgs \in MatchInputs
    /\ verdicts = <<>>

MatchNext == ApplyValidator

MatchSpec == MatchSpecInit /\ [][MatchNext]_vars

(***************************************************************************)
(* Properties of fetch_lyrics_controller, checked under Spec               *)
(***************************************************************************)
\* the Matcher, with the orchestrator's threshold, accepts result for the request
Validates(result) ==
    validate_lyrics_match(req.artist_name, req.song_title, result,
                          <<ThresholdNum, ThresholdDen>>).valid

\* the place of provider p in the sequence ids
Position(ids, p) == Min({i \in DOMAIN ids : ids[i] = p})

Succeeded == pc = "done" /\ response.status = "success"

\* C1: in both modes, when fetch_lyrics_controller returns status=success the
\* data is what a provider of the executed sequence returned, and the Matcher
\* with threshold 0.75 finds it valid for the requested artist and song.
C1_SuccessIsValidated ==
    Succeeded =>
        /\ response.data # NoResult
        /\ response.data.source \in Range(fetcher_ids)
        /\ answered[response.data.source] = Outcome("returned", response.data)
        /\ Validates(response.data)

\* a race returned a success after a failed attempt was collected
C1_Witness ==
    /\ Succeeded
    /\ mode = "parallel"
    /\ Len(attempts) > 1
    /\ Validates(response.data)

\* ids is empty, has a value outside 1..6, more than 6 entries or a duplicate
BadEntries(ids) ==
    \/ ids = <<>>
    \/ \E i \in DOMAIN ids : ids[i] < 1 \/ ids[i] > 6
    \/ Len(ids) > 6
    \/ \E i, j \in DOMAIN ids : i # j /\ ids[i] = ids[j]

\* the caller supplied a sequence of integers that is not a valid sequence
SequenceIsBad(sequence) ==
    /\ sequence # NoneStr
    /\ ~SequenceFormatError(sequence)
    /\ BadEntries(ParseSequence(sequence))

InvalidSequenceReturned ==
    /\ invoked = <<>>
    /\ pc \in {"called", "done"}
    /\ pc = "done" => response = ErrorResponse("Invalid sequence")

\* C2 as stated: whatever else the request carries, a supplied sequence that
\* is empty, out of range, too long or has a duplicate ends the run with the
\* invalid-sequence error and no adapter is invoked.
C2_AnyBadSequenceRejected == SequenceIsBad(req.sequence) => InvalidSequenceReturned

\* C2, amended: with fast mode off, the pass flag set and a non-empty sequence
\* string of integers, a sequence with no entry, a value outside 1..6, more
\* than 6 entries or a duplicate ends the run with the invalid-sequence error
\* and no adapter is invoked.
C2_CustomBadSequenceRejected ==
    (~req.fast_mode /\ req.pass_param /\ req.sequence # <<>> /\ SequenceIsBad(req.sequence))
        => InvalidSequenceReturned /\ mode = "none"

\* the sequence "2,2" was rejected
C2_Witness ==
    /\ pc = "done"
    /\ ~req.fast_mode /\ req.pass_param
    /\ req.sequence = <<"2", ",", "2">>
    /\ response = ErrorResponse("Invalid sequence")
    /\ invoked = <<>>

\* what the sequential loop records for an adapter call that is not accepted
TurnedDown(o, attempt) ==
    /\ ~attempt.success
    /\ IF o.kind = "returned" /\ Usable(o.result, req.timestamps)
       THEN ~Validates(o.result) /\ attempt.reason = "validation_failed"
       ELSE attempt.reason \in {"no_results", "error"}

\* C3: in sequential mode the adapters are invoked in sequence order; every
\* provider before the current one was turned down, a result failing
\* validation being recorded as validation_failed; a success is the result of
\* the last provider invoked, which validates, and no later one is invoked.
C3_SequentialFirstValid ==
    mode = "sequential" =>
        /\ Len(invoked) <= Len(fetcher_ids)
        /\ invoked = SubSeq(fetcher_ids, 1, Len(invoked))
        /\ \A i \in DOMAIN attempts :
              /\ attempts[i].api = FETCHER_MAP[fetcher_ids[i]]
              /\ TurnedDown(answered[fetcher_ids[i]], attempts[i])
        /\ pc = "seq_wait" => Len(attempts) = Len(invoked) - 1 /\ idx = Len(invoked)
        /\ Succeeded =>
              /\ Len(attempts) = Len(invoked) - 1
              /\ answered[invoked[Len(invoked)]] = Outcome("returned", response.data)
              /\ Validates(response.data)
        /\ (pc = "done" /\ response.status = "error") =>
              /\ Len(attempts) = Len(fetcher_ids)
              /\ invoked = fetcher_ids

\* sequence [2,3,4]: provider 2 failed validation, provider 3 was accepted,
\* provider 4 was not called
C3_Witness ==
    /\ mode = "sequential"
    /\ Succeeded
    /\ fetcher_ids = <<2, 3, 4>>
    /\ invoked = <<2, 3>>
    /\ Len(attempts) = 1
    /\ attempts[1].reason = "validation_failed"
    /\ response.data.source = 3

\* provider p finished in the wake-up that ended the race, with a result that
\* validates, and was not read
DroppedValid(p) ==
    /\ taskState[p] = "discarded"
    /\ taskAttempt[p].success
    /\ Validates(taskAttempt[p].result)

\* C4 as stated: when two providers complete within the same wake-up and
\* both validate, the one earlier in the sequence is returned.
C4_PriorityOrder ==
    (mode = "parallel" /\ Succeeded) =>
        \A p \in ProviderIds :
            DroppedValid(p) =>
                Position(fetcher_ids, response.data.source) < Position(fetcher_ids, p)

\* C4, amended: a race hands the Matcher the attempts in the order they were
\* read; only the last of them can be a success, and a success returned is
\* that last attempt's result, read from a task the loop collected; of two
\* tasks finished in the same wake-up either may be the one read first.
C4_RaceReturnsFirstCollected ==
    (mode = "parallel" /\ pc = "done") =>
        /\ \A i \in 1..(Len(attempts) - 1) : ~attempts[i].success
        /\ Succeeded =>
              /\ attempts # <<>>
              /\ attempts[Len(attempts)].success
              /\ response.data = attempts[Len(attempts)].result
              /\ taskState[response.data.source] = "collected"

\* a later provider of the sequence was returned although an earlier one had
\* finished in the same wake-up with a result that validates
C4_Witness ==
    /\ mode = "parallel"
    /\ Succeeded
    /\ \E p \in ProviderIds :
          /\ DroppedValid(p)
          /\ Position(fetcher_ids, p) < Position(fetcher_ids, response.data.source)

\* result carries synchronized data in one of the three fields tested
Timed(result) == result.hasTimestamps \/ result.timed_lyrics \/ result.timestamped

\* C5 as stated: with timestamps requested, no result whose hasTimestamps
\* flag is false is returned or counts as a success of the race.
C5_FlagRequired ==
    req.timestamps =>
        /\ Succeeded => response.data.hasTimestamps
        /\ \A p \in ProviderIds : taskAttempt[p].success => taskAttempt[p].result.hasTimestamps

\* what is recorded for provider p when its result has no synchronized data
RecordedNoResults(p) ==
    IF mode = "parallel"
    THEN taskAttempt[p] = Attempt(FETCHER_MAP[p], FALSE, NoResult, "no_results")
    ELSE /\ Position(fetcher_ids, p) \in DOMAIN attempts
         /\ attempts[Position(fetcher_ids, p)].reason = "no_results"

\* C5, amended: with timestamps requested, a result that has neither the
\* hasTimestamps flag nor timed lines nor raw synchronized text is never
\* accepted, whatever lyric text it carries: it is recorded as no_results,
\* never returned and never a success of the race.
C5_TimedDataRequired ==
    req.timestamps =>
        /\ Succeeded => Timed(response.data)
        /\ \A p \in ProviderIds :
              /\ taskAttempt[p].success => Timed(taskAttempt[p].result)
              /\ (answered[p].kind = "returned" /\ answered[p].result # NoResult
                    /\ ~Timed(answered[p].result)) => RecordedNoResults(p)

\* a provider returned plain lyrics only, and the run succeeded with another
C5_Witness ==
    /\ req.timestamps
    /\ Succeeded
    /\ \E p \in ProviderIds :
          /\ answered[p].result.lyrics
          /\ ~Timed(answered[p].result)
          /\ RecordedNoResults(p)

(***************************************************************************)
(* Properties of the cache, checked under CacheSpec                        *)
(***************************************************************************)
\* the last save_to_cache on the key of the last operation, not cleared since
LastSaved == {e \in stored : e.name = cacheOp.key}

\* C6: a load of k made less than CACHE_TTL after the last store of r under
\* k, with no clear in between, returns r unchanged (every file operation
\* succeeding).
C6_RoundTrip ==
    cacheOp.op = "load" =>
        \A e \in LastSaved : cacheOp.at < e.at + CACHE_TTL => cacheOp.result = e.result

\* an entry was loaded one tick after it was stored
C6_Witness ==
    /\ cacheOp.op = "load"
    /\ \E e \in LastSaved :
          /\ cacheOp.at = e.at + 1
          /\ cacheOp.result = e.result
          /\ e.result \in CacheResults

C8_AnyChangeChangesKey ==
    fingerprints # <<>> => (fingerprints[1] = fingerprints[2] <=> keyArgs[1] = keyArgs[2])

\* s and t are equal up to letter case and leading and trailing whitespace
SameName(s, t) == LowerStr(Strip(s)) = LowerStr(Strip(t))

\* both sequences are the same string, or each is absent or empty
SameSequence(s, t) == s = t \/ {s, t} = {NoneStr, <<>>}

\* the only changes between a and b are of letter case or outer whitespace in
\* artist or song, or between an absent and an empty sequence
SameCanonicalForm(a, b) ==
    /\ Changed(a, b) \subseteq {"artist", "song", "sequence"}
    /\ SameName(a.artist, b.artist)
    /\ SameName(a.song, b.song)
    /\ SameSequence(a.sequence, b.sequence)

\* C8, amended: equal argument lists give equal fingerprints; a change of one
\* argument changes the fingerprint, except a change of letter case or of
\* leading or trailing whitespace in artist or song, and a change between
\* an absent and an empty sequence, which leave it the same.
C8_KeyDeterminism ==
    fingerprints # <<>> =>
        (fingerprints[1] = fingerprints[2] <=> SameCanonicalForm(keyArgs[1], keyArgs[2]))

\* two lists that differ in the letter case of the artist have one fingerprint
C8_Witness ==
    /\ fingerprints # <<>>
    /\ Changed(keyArgs[1], keyArgs[2]) = {"artist"}
    /\ fingerprints[1] = fingerprints[2]

\* the canonical structure of a request: the version tag, artist and song
\* trimmed and in lower case, the sequence string (empty when absent) and
\* the four flags
CanonicalStructure(a) ==
    <<"v2", LowerStr(Strip(a.artist)), LowerStr(Strip(a.song)), a.timestamps,
      IF a.sequence = NoneStr THEN <<>> ELSE a.sequence, a.fast, a.mood, a.metadata>>

\* the two lists have the same flags
SameFlags(a, b) ==
    Changed(a, b) \cap {"timestamps", "fast", "mood", "metadata"} = {}

\* C31: two requests whose artist or song differ only in letter case or in
\* leading or trailing whitespace, or whose sequence is absent in one and
\* empty in the other, have the same fingerprint; two requests whose
\* canonical structures differ have different fingerprints.
C31_CanonicalFingerprint ==
    fingerprints # <<>> =>
        /\ (/\ SameName(keyArgs[1].artist, keyArgs[2].artist)
            /\ SameName(keyArgs[1].song, keyArgs[2].song)
            /\ SameSequence(keyArgs[1].sequence, keyArgs[2].sequence)
            /\ SameFlags(keyArgs[1], keyArgs[2]))
               => fingerprints[1] = fingerprints[2]
        /\ CanonicalStructure(keyArgs[1]) # CanonicalStructure(keyArgs[2])
               => fingerprints[1] # fingerprints[2]

\* "ADELE" with no sequence and " Adele" with an empty sequence have one
\* fingerprint
C31_Witness ==
    /\ fingerprints # <<>>
    /\ keyArgs[1].artist = <<"A","D","E","L","E">>
    /\ keyArgs[2].artist = <<" ">> \o ReqArtist
    /\ keyArgs[1].sequence = NoneStr
    /\ keyArgs[2].sequence = <<>>
    /\ fingerprints[1] = fingerprints[2]

(***************************************************************************)
(* Properties of the /lyrics/ handler, checked under ServerSpec            *)
(***************************************************************************)
\* C9: whatever requests were served, every entry of the cache holds a
\* response with status success whose data has lyric text; neither an error
\* response nor a success without lyric text is ever written.
C9_OnlyLyricsCached ==
    \A f \in cache_files :
        /\ ~Unparseable(f.content)
        /\ EntryResult(f.content).status = "success"
        /\ EntryResult(f.content).data.lyrics

\* a success without lyric text was answered and nothing was written for it,
\* while the cache holds an entry of another request
C9_Witness ==
    /\ pc = "idle"
    /\ http.lookup = "miss"
    /\ http.code = 200
    /\ http.body.status = "success"
    /\ ~http.body.data.lyrics
    /\ ~Exists(cache_files, RequestKey(req))
    /\ cache_files # {}

\* C10: the handler looks the request up in the cache before anything else;
\* when the cache holds an entry for the request's key whose expiry time has
\* not passed, the answer is the stored result and neither
\* fetch_lyrics_controller nor an adapter runs for the request; they run only
\* after a miss.
C10_CacheBeforeFetch ==
    /\ http.fresh # NoResponse =>
          /\ http.lookup = "hit"
          /\ http.code = 200
          /\ http.body = http.fresh
          /\ pc = "idle"
          /\ mode = "none" /\ invoked = <<>> /\ response = NoResponse
    /\ http.lookup = "hit" => http.body = http.fresh /\ http.fresh # NoResponse
    /\ (pc # "idle" \/ mode # "none" \/ invoked # <<>>) =>
          http.lookup = "miss" /\ http.fresh = NoResponse

\* a request was answered from an entry stored at an earlier tick
C10_Witness ==
    /\ http.lookup = "hit"
    /\ http.body.status = "success"
    /\ invoked = <<>>
    /\ \E e \in stored : e.name = RequestKey(req) /\ e.result = http.body /\ e.at < now

(***************************************************************************)
(* Failures inside a run of fetch_lyrics_controller, checked under Spec    *)
(***************************************************************************)
\* the adapter call that returns nothing in place of one that raises
Quiet(o) == IF o.kind = "raise" THEN Outcome("returned", NoResult) ELSE o

\* what the sequential loop over ids returns from index i on when every
\* adapter that raised had returned nothing instead
RECURSIVE QuietSequential(_, _)
QuietSequential(ids, i) ==
    IF i > Len(ids) THEN ErrorResponse("No lyrics found")
    ELSE IF SequentialTurn(req.artist_name, req.song_title, req.timestamps,
                           FETCHER_MAP[ids[i]], Quiet(answered[ids[i]])).accepted
    THEN SequentialTurn(req.artist_name, req.song_title, req.timestamps,
                        FETCHER_MAP[ids[i]], Quiet(answered[ids[i]])).response
    ELSE QuietSequential(ids, i + 1)

\* the attempts of a race with those of the adapters that raised replaced by
\* what fetch_with_timeout returns for an adapter that returned nothing
QuietAttempts(atts) ==
    [i \in DOMAIN atts |->
        IF atts[i].reason = "error"
        THEN fetch_with_timeout(atts[i].api, Outcome("returned", NoResult), req.timestamps)
        ELSE atts[i]]

\* the result fetch_lyrics_parallel returned along with atts
RaceResult(atts) ==
    IF atts # <<>> /\ atts[Len(atts)].success THEN atts[Len(atts)].result ELSE NoResult

\* the verdict of the run had every adapter that raised returned nothing
QuietVerdict ==
    IF mode = "parallel"
    THEN AfterParallel(req.artist_name, req.song_title, RaceResult(attempts),
                       QuietAttempts(attempts))
    ELSE QuietSequential(fetcher_ids, 1)

\* the failure of provider p is on record with this reason: it is what the
\* task of p returned, and in the attempts list once the loop has read the
\* task; in sequential mode it is the attempt at the place of p
Recorded(p, reason) ==
    IF mode = "parallel"
    THEN /\ taskAttempt[p] = Attempt(FETCHER_MAP[p], FALSE, NoResult, reason)
         /\ taskState[p] = "collected" => \E i \in DOMAIN attempts : attempts[i] = taskAttempt[p]
    ELSE /\ Position(fetcher_ids, p) \in DOMAIN attempts
         /\ attempts[Position(fetcher_ids, p)] = Attempt(FETCHER_MAP[p], FALSE, NoResult, reason)

\* C13: an adapter that raises does not end the run, in either mode: the
\* exception is recorded as an error attempt of that provider; in sequential
\* mode the next provider of the sequence is invoked, in race mode no task is
\* cancelled or dropped unless a success was read; and the run ends with the
\* verdict it would have reached had the provider returned nothing.
C13_RaiseIsAbsorbed ==
    /\ \A p \in ProviderIds : answered[p].kind = "raise" => Recorded(p, "error")
    /\ mode = "sequential" =>
          \A i \in DOMAIN attempts :
              (attempts[i].reason = "error" /\ i < Len(fetcher_ids)) => Len(invoked) > i
    /\ mode = "parallel" =>
          ((\E p \in ProviderIds : taskState[p] \in {"cancelled", "discarded"})
              => RaceResult(attempts) # NoResult)
    /\ (pc = "done" /\ mode # "none") =>
          /\ response.status \in {"success", "error"}
          /\ response = QuietVerdict

\* sequential mode: a provider raised, and a later provider of the sequence
\* was accepted
C13_Witness ==
    /\ mode = "sequential"
    /\ Succeeded
    /\ \E i \in DOMAIN attempts :
          /\ attempts[i].reason = "error"
          /\ answered[fetcher_ids[i]].kind = "raise"
          /\ Position(fetcher_ids, response.data.source) > i

(***************************************************************************)
(* The responses of fetch_lyrics_controller, checked under Spec            *)
(***************************************************************************)
\* the messages of the four error responses of fetch_lyrics_controller
ErrorMessages ==
    {"Invalid sequence", "Invalid sequence format", "No lyrics found",
     "Found results but none matched"}

\* C15: every response of fetch_lyrics_controller has status success or
\* error; an error response carries one of the four messages and a
\* timestamp, and no data; a success response carries the data of a result.
C15_ResponseShape ==
    pc = "done" =>
        /\ response.status \in {"success", "error"}
        /\ response.status = "error" =>
              /\ response.message \in ErrorMessages
              /\ response.timestamp
              /\ response.data = NoResult
        /\ response.status = "success" =>
              /\ response.data # NoResult
              /\ response.message = ""

\* a race ended with the error that results were found but none matched
C15_Witness ==
    /\ pc = "done"
    /\ mode = "parallel"
    /\ response.status = "error"
    /\ response.message = "Found results but none matched"
    /\ response.timestamp

\* provider p answered with a result that passes the acceptance test
ReturnedUsable(p) ==
    answered[p].kind = "returned" /\ Usable(answered[p].result, req.timestamps)

SomeUsable == \E p \in ProviderIds : ReturnedUsable(p)

SomeValid == \E p \in ProviderIds : ReturnedUsable(p) /\ Validates(answered[p].result)

\* a run that called adapters has ended
RunEnded == pc = "done" /\ mode # "none"

\* C16 as stated: in every mode a run with a usable result of which none
\* validates ends with the error that results were found but none matched,
\* and a run without a usable result ends with the error that no lyrics were
\* found.
C16_DistinguishedInEveryMode ==
    RunEnded =>
        /\ (SomeUsable /\ ~SomeValid) =>
              response = ErrorResponse("Found results but none matched")
        /\ ~SomeUsable => response = ErrorResponse("No lyrics found")

\* C16, amended: a race with a usable result of which none validates ends
\* with the error that results were found but none matched, and a race
\* without a usable result with the error that no lyrics were found; a
\* sequential run ends with the error that no lyrics were found in both
\* cases, a result that failed validation showing only as validation_failed
\* in the attempts list.
C16_DistinguishedInRace ==
    RunEnded =>
        /\ (mode = "parallel" /\ SomeUsable /\ ~SomeValid) =>
              response = ErrorResponse("Found results but none matched")
        /\ (mode = "parallel" /\ ~SomeUsable) => response = ErrorResponse("No lyrics found")
        /\ (mode = "sequential" /\ ~SomeValid) =>
              /\ response = ErrorResponse("No lyrics found")
              /\ \A i \in DOMAIN attempts :
                    ReturnedUsable(fetcher_ids[i]) <=> attempts[i].reason = "validation_failed"

\* a sequential run in which a provider returned a usable result that failed
\* validation ended with the error that no lyrics were found
C16_Witness ==
    /\ RunEnded
    /\ mode = "sequential"
    /\ SomeUsable
    /\ response = ErrorResponse("No lyrics found")
    /\ \E i \in DOMAIN attempts : attempts[i].reason = "validation_failed"

\* every provider of the sequence was tried and none was accepted
Exhausted ==
    /\ RunEnded
    /\ IF mode = "parallel"
       THEN RaceResult(attempts) = NoResult
       ELSE response.status = "error"

\* atts has one record, with provider name and reason, for each provider of ids
OneAttemptEach(atts, ids) ==
    /\ Len(atts) = Len(ids)
    /\ \A p \in Range(ids) : \E i \in DOMAIN atts : atts[i].api = FETCHER_MAP[p]
    /\ \A i \in DOMAIN atts : ~atts[i].success /\ atts[i].reason # ""

\* C17: when every provider of the sequence was tried without an accepted
\* result, the run returns the error that no lyrics were found, and that
\* response carries the attempts list, one record for every provider tried.
C17_AttemptsCarried ==
    Exhausted =>
        /\ response.message = "No lyrics found"
        /\ OneAttemptEach(attempts, invoked)
        /\ "attempts" \in ResponseKeys(response) \cup ErrorKeys(response)

\* a sequential run over the six providers ended without a result: the run
\* holds six attempt records, the response a message and a timestamp only
C17_Witness ==
    /\ Exhausted
    /\ mode = "sequential"
    /\ Len(fetcher_ids) = 6
    /\ OneAttemptEach(attempts, invoked)
    /\ response.message = "No lyrics found"
    /\ ResponseKeys(response) = {"status", "error"}
    /\ ErrorKeys(response) = {"message", "timestamp"}

\* what does hold of an exhausted run: the error and the attempts kept inside
C17_AttemptsKept ==
    Exhausted =>
        /\ response.message = "No lyrics found"
        /\ OneAttemptEach(attempts, invoked)

\* the sequential loop awaits a provider call that never returns
SeqHung ==
    /\ pc = "seq_wait"
    /\ mode = "sequential"
    /\ answered[fetcher_ids[idx]].kind = "hang"

\* a step of the run of fetch_lyrics_controller
ControllerStep ==
    \/ SeqComplete
    \/ \E p \in ProviderIds : TaskComplete(p)
    \/ RaceWake

C18_TimeoutOnlyInRace ==
    (\E i \in DOMAIN attempts : attempts[i].reason = "timeout") => mode = "parallel"

\* the attempts list holds a success
HasSuccess(atts) == \E i \in DOMAIN atts : atts[i].success

\* the tasks of the race that have not finished
Pending(states) == {p \in DOMAIN states : states[p] = "running"}

\* C19: in a race, the step that collects the first successful attempt,
\* whether or not its result validates, cancels every task still pending at
\* that moment; no step cancels a task before a success is collected.
C19_SuccessCancelsPending ==
    [][/\ (pc = "race_wait" /\ HasSuccess(attempts')) =>
            /\ \A p \in Pending(taskState) : taskState'[p] = "cancelled"
            /\ Pending(taskState') = {}
       /\ ~HasSuccess(attempts') =>
            \A p \in ProviderIds : taskState'[p] # "cancelled"]_vars

\* a race ended on a success that did not validate, and a task still pending
\* when that success was collected is cancelled
C19_Witness ==
    /\ mode = "parallel"
    /\ pc = "done"
    /\ HasSuccess(attempts)
    /\ response.message = "Found results but none matched"
    /\ \E p \in ProviderIds : taskState[p] = "cancelled"
    /\ Pending(taskState) = {}

\* the first success of the attempts list does not validate
FirstSuccessInvalid(atts) ==
    /\ HasSuccess(atts)
    /\ ~Validates(atts[FirstSuccess(atts)].result)

\* C20: in a race, the step that collects a first success whose result does
\* not validate ends the run with the failure: no task is left running or
\* finished and unread, and nothing is read from the other providers.
C20_InvalidSuccessEndsRace ==
    [][(pc = "race_wait" /\ FirstSuccessInvalid(attempts')) =>
            /\ pc' = "done"
            /\ response'.status = "error"
            /\ response'.message = "Found results but none matched"
            /\ FirstSuccess(attempts') = Len(attempts')
            /\ \A p \in ProviderIds :
                   taskState'[p] \in {"none", "collected", "discarded", "cancelled"}]_vars

\* a race ended as failure on a success that did not validate while another
\* provider had finished with a result that validates and was not read
C20_Witness ==
    /\ mode = "parallel"
    /\ pc = "done"
    /\ FirstSuccessInvalid(attempts)
    /\ response.message = "Found results but none matched"
    /\ \E p \in ProviderIds : DroppedValid(p)
    /\ \E p \in ProviderIds : taskState[p] = "cancelled"

\* the providers whose attempt is in the attempts list
InBatch(atts) == {p \in ProviderIds : \E i \in DOMAIN atts : atts[i].api = FETCHER_MAP[p]}

\* provider p finished with a success the loop never read: in the wake-up of
\* the success that was read, or in the background after its task was cancelled
LateSuccess(p) ==
    /\ taskState[p] \in {"discarded", "cancelled"}
    /\ taskAttempt[p].success

\* C21: the batch a race hands to the Matcher is the attempts read up to and
\* including the first success, each the attempt of a task the loop read; the
\* result of a provider that finished without being read, in the same
\* wake-up or after its cancellation, is not in the batch, and the verdict is
\* the Matcher's verdict on the batch alone.
C21_BatchUpToFirstSuccess ==
    (mode = "parallel" /\ pc = "done") =>
        /\ HasSuccess(attempts) => FirstSuccess(attempts) = Len(attempts)
        /\ InBatch(attempts) = {p \in ProviderIds : taskState[p] = "collected"}
        /\ \A i \in DOMAIN attempts :
              \E p \in ProviderIds : taskState[p] = "collected" /\ attempts[i] = taskAttempt[p]
        /\ \A p \in ProviderIds :
              LateSuccess(p) => \A i \in DOMAIN attempts : attempts[i].result # taskAttempt[p].result
        /\ response = AfterParallel(req.artist_name, req.song_title,
                                    RaceResult(attempts), attempts)

\* a race ended as failure on a success that did not validate, while a task
\* finished in the same wake-up and a cancelled task whose call finished in
\* the background both hold a result that validates
C21_Witness ==
    /\ mode = "parallel"
    /\ pc = "done"
    /\ response.message = "Found results but none matched"
    /\ \E p, q \in ProviderIds :
          /\ taskState[p] = "discarded" /\ LateSuccess(p) /\ Validates(taskAttempt[p].result)
          /\ taskState[q] = "cancelled" /\ LateSuccess(q) /\ Validates(taskAttempt[q].result)

\* the places of the successes in the attempts list
Successes(atts) == {i \in DOMAIN atts : atts[i].success}

\* C22: at every moment of a race the attempts read hold at most one success,
\* and it is the last attempt read: with it the race has ended, and the
\* verdict is that success's result if it validates and the error that
\* results were found but none matched if it does not.
C22_SingleSuccessDecides ==
    mode = "parallel" =>
        /\ Cardinality(Successes(attempts)) <= 1
        /\ Successes(attempts) # {} =>
              /\ Successes(attempts) = {Len(attempts)}
              /\ pc = "done"
              /\ IF Validates(attempts[Len(attempts)].result)
                 THEN /\ response.status = "success"
                      /\ response.data = attempts[Len(attempts)].result
                 ELSE response = ErrorResponse("Found results but none matched")

\* a race read a failure and then a success that validates, while another
\* task had finished with a success that was not read
C22_Witness ==
    /\ mode = "parallel"
    /\ Succeeded
    /\ Len(attempts) = 2
    /\ Successes(attempts) = {2}
    /\ \E p \in ProviderIds : taskState[p] = "discarded" /\ taskAttempt[p].success

\* the tasks that are cancelled
CancelledTasks(states) == {p \in DOMAIN states : states[p] = "cancelled"}

\* C23: a task is cancelled only by the step of a race that reads the first
\* success, and only if it was still running then; a step that reads failures
\* only cancels nothing, and a sequential run has no task to cancel.
C23_OnlySuccessCancels ==
    [][/\ \A p \in CancelledTasks(taskState') \ CancelledTasks(taskState) :
            /\ mode = "parallel"
            /\ pc = "race_wait"
            /\ taskState[p] = "running"
            /\ ~HasSuccess(attempts)
            /\ HasSuccess(attempts')
       /\ ~HasSuccess(attempts') => CancelledTasks(taskState') = {}
       /\ mode' = "sequential" => \A p \in ProviderIds : taskState'[p] = "none"]_vars

\* a race has read a failed attempt and waits on: a task is still running
\* and none is cancelled
C23_Witness ==
    /\ mode = "parallel"
    /\ pc = "race_wait"
    /\ attempts # <<>>
    /\ ~HasSuccess(attempts)
    /\ Pending(taskState) # {}
    /\ CancelledTasks(taskState) = {}

\* how often the adapter of provider p was called in the run
Calls(p) == Cardinality({i \in DOMAIN invoked : invoked[i] = p})

\* C24: in a run of either mode the adapter of a provider is called at most
\* once, and only for a provider of the sequence; no provider has more than
\* one attempt on record, whatever the attempts before it were.
C24_OneCallPerProvider ==
    /\ \A p \in ProviderIds : Calls(p) <= 1
    /\ \A i \in DOMAIN invoked : invoked[i] \in Range(fetcher_ids)
    /\ \A i, j \in DOMAIN attempts : attempts[i].api = attempts[j].api => i = j
    /\ Len(attempts) <= Len(invoked)

\* a sequential run over the six providers ended without a result after an
\* error, an empty answer and a failed validation: six calls, one for each
C24_Witness ==
    /\ mode = "sequential"
    /\ pc = "done"
    /\ response.status = "error"
    /\ Len(invoked) = 6
    /\ \A r \in {"error", "no_results", "validation_failed"} :
          \E i \in DOMAIN attempts : attempts[i].reason = r

\* the calls of the run that have not returned: in sequential mode the call
\* the loop awaits, in a race the running tasks
InFlight ==
    IF mode = "sequential"
    THEN {i \in DOMAIN invoked : i > Len(attempts) /\ pc = "seq_wait"}
    ELSE {i \in DOMAIN invoked : taskState[invoked[i]] = "running"}

\* C27: a run that calls adapters is a race exactly when fast mode is on or
\* the pass flag comes with a sequence of more than one provider; a custom
\* sequence of one provider and the default sequences, [2,3,4] with
\* timestamps and [1..6] without, run sequentially, as does any request
\* without the pass flag whatever sequence string it carries; a sequential
\* run has no task and at most one call in flight, made after every earlier
\* call was turned down.
C27_ModeSelection ==
    mode # "none" =>
        /\ mode = "parallel" <=>
              (req.fast_mode \/ (CustomSequence(req) /\ Len(ParseSequence(req.sequence)) > 1))
        /\ (~req.fast_mode /\ ~CustomSequence(req)) =>
              fetcher_ids = IF req.timestamps THEN <<2, 3, 4>> ELSE <<1, 2, 3, 4, 5, 6>>
        /\ mode = "sequential" =>
              /\ \A p \in ProviderIds : taskState[p] = "none"
              /\ Cardinality(InFlight) <= 1
              /\ Len(attempts) >= Len(invoked) - 1
              /\ \A i \in DOMAIN invoked : i <= Len(attempts) => ~attempts[i].success

\* a request without the pass flag that carries the sequence "2,3" runs the
\* default sequence one provider at a time: the second call is in flight
\* after the first was turned down
C27_Witness ==
    /\ mode = "sequential"
    /\ ~req.pass_param
    /\ req.sequence = <<"2", ",", "3">>
    /\ fetcher_ids = <<1, 2, 3, 4, 5, 6>>
    /\ Len(invoked) = 2
    /\ Len(attempts) = 1
    /\ InFlight = {2}

\* the responses that reject a sequence
SequenceRejections ==
    {ErrorResponse("Invalid sequence"), ErrorResponse("Invalid sequence format")}

\* C28: with fast mode on, the sequence string of the request is not used:
\* whatever it holds, no response rejects it, the run is a race, and the
\* providers started are LRCLIB and SimpMusic, in that order.
C28_FastModeIgnoresSequence ==
    (req.fast_mode /\ pc # "called") =>
        /\ response \notin SequenceRejections
        /\ mode = "parallel"
        /\ fetcher_ids = <<2, 3>>
        /\ invoked = <<2, 3>>
        /\ \A p \in ProviderIds \ {2, 3} : taskState[p] = "none"

\* fast mode with the pass flag and a sequence that a custom run rejects
\* (a duplicate): the race over LRCLIB and SimpMusic ran and succeeded
C28_Witness ==
    /\ req.fast_mode
    /\ req.pass_param
    /\ SequenceIsBad(req.sequence)
    /\ mode = "parallel"
    /\ Succeeded
    /\ invoked = <<2, 3>>

\* ids is a sequence as the orchestrator executes them: not empty, without
\* duplicates, every id one of the six providers
WellFormedSequence(ids) ==
    /\ ids # <<>>
    /\ \A i, j \in DOMAIN ids : ids[i] = ids[j] => i = j
    /\ \A i \in DOMAIN ids : ids[i] \in 1..6

\* C29: the sequence a run executes, a default or the fast sequence or a
\* custom sequence that passed the test, is well formed, and every adapter
\* called in the run is that of an id of this sequence; a run whose sequence
\* was rejected executes none and calls no adapter.
C29_ExecutedSequenceWellFormed ==
    /\ mode # "none" =>
          /\ WellFormedSequence(fetcher_ids)
          /\ \A i \in DOMAIN invoked : invoked[i] \in Range(fetcher_ids)
          /\ \A p \in ProviderIds :
                (taskState[p] # "none" \/ answered[p] # NoOutcome) => p \in Range(fetcher_ids)
    /\ mode = "none" => (invoked = <<>> /\ fetcher_ids = <<>>)

\* a race over the custom sequence "3,2" ended: the sequence passed the test
\* and the two adapters called are those of its ids
C29_Witness ==
    /\ CustomSequence(req)
    /\ mode = "parallel"
    /\ pc = "done"
    /\ fetcher_ids = <<3, 2>>
    /\ invoked = <<3, 2>>
    /\ answered[2] # NoOutcome
    /\ answered[3] # NoOutcome

(***************************************************************************)
(* Termination of the race, checked under FairSpec                         *)
(***************************************************************************)
\* fetch_lyrics_parallel has returned: the first success read, or no result
\* once every task it started was read without a success
RaceReturned ==
    /\ pc = "done"
    /\ response # NoResponse
    /\ IF HasSuccess(attempts)
       THEN RaceResult(attempts) = attempts[FirstSuccess(attempts)].result
       ELSE /\ response = ErrorResponse("No lyrics found")
            /\ \A p \in Range(invoked) : taskState[p] = "collected"

\* C26: a race in progress ends: when every task ends, by its call returning
\* or raising or by the per-call timeout, the race returns the first success
\* read or, every task read without a success, the error that no lyrics
\* were found.
C26_RaceTerminates == (mode = "parallel" /\ pc = "race_wait") ~> RaceReturned

\* a race over three providers ended with the error that no lyrics were
\* found after every task was read, one of them cut off by its timeout
C26_Witness ==
    /\ mode = "parallel"
    /\ RaceReturned
    /\ Len(attempts) = 3
    /\ ~HasSuccess(attempts)
    /\ \E i \in DOMAIN attempts : attempts[i].reason = "timeout"

(***************************************************************************)
(* The 60 s bound of the caller, checked under ServerSpec                  *)
(***************************************************************************)
\* the request was answered while its run of fetch_lyrics_controller, begun
\* after a miss, had not returned
Abandoned == pc = "idle" /\ mode # "none" /\ response = NoResponse

\* C14: when the 60 s bound of the caller passes before the run has
\* returned, the run is abandoned and the answer is the error 'Request timed
\* out' with status 504, whatever the state of the provider calls; it is
\* neither a success nor another kind of failure.
C14_TimeoutReported ==
    Abandoned =>
        /\ http.code = 504
        /\ http.body = ErrorResponse("Request timed out")

\* a request abandoned during a race was answered 500 'Failed to fetch lyrics'
C14_Witness ==
    /\ Abandoned
    /\ mode = "parallel"
    /\ http.code = 500
    /\ http.body = ErrorResponse("Failed to fetch lyrics")

\* the run of the last request returned to the handler
ReturnedToHandler == mode # "none" /\ response # NoResponse

\* C25 as stated: once a run has ended, by returning or by being abandoned at
\* the bound of the caller, none of its tasks is still running.
C25_NoTaskPendingAfterRun ==
    (ReturnedToHandler \/ Abandoned) => Pending(taskState) = {}

\* C25, amended: once a run has returned, with a success or a failure, none
\* of its tasks is still running: each has finished or was cancelled when the
\* first success was read. A sequential run has no task, abandoned or not. A
\* race abandoned at the bound of the caller has cancelled nothing: the tasks
\* that were running are left running.
C25_NoTaskPendingAfterReturn ==
    /\ ReturnedToHandler => Pending(taskState) = {}
    /\ mode = "sequential" => \A p \in ProviderIds : taskState[p] = "none"
    /\ (Abandoned /\ mode = "parallel") =>
          /\ CancelledTasks(taskState) = {}
          /\ \A p \in ProviderIds : taskState[p] \in {"none", "running", "finished", "collected"}

\* a race was abandoned at the bound of the caller and answered 504 while one
\* of its tasks had been read and another is still running, not cancelled
C25_Witness ==
    /\ Abandoned
    /\ mode = "parallel"
    /\ http.code = 504
    /\ attempts # <<>>
    /\ Pending(taskState) # {}
    /\ CancelledTasks(taskState) = {}

\* the plan fetch_lyrics_controller selects for request r: the sequence it
\* executes and the mode, or the rejection of the sequence
Plan(r) ==
    IF SequenceError(r) # ""
    THEN [rejected |-> TRUE, sequence |-> <<>>, parallel |-> FALSE]
    ELSE [rejected |-> FALSE, sequence |-> SelectSequence(r),
          parallel |-> UseParallel(r.fast_mode, r.pass_param, r.sequence, SelectSequence(r))]

\* the requests differ in the pass flag and in nothing else
DifferInPassOnly(r, q) ==
    /\ r.pass_param # q.pass_param
    /\ [r EXCEPT !.pass_param = q.pass_param] = q

\* C30: a request whose fingerprint is that of an entry stored for another
\* request selects the plan of that request, the same sequence and the same
\* mode, so a cached response is served only to a request that would have
\* run the plan that produced it; two requests that differ in the pass flag
\* only have different fingerprints.
C30_SameKeySamePlan ==
    \A e \in stored :
        /\ e.name = RequestKey(req) => Plan(e.by) = Plan(req)
        /\ DifferInPassOnly(e.by, req) => e.name # RequestKey(req)

\* a request with the sequence "3" and without the pass flag, which runs the
\* default sequence [2,3,4], was answered from the cache with the response
\* stored for the request with the pass flag, which ran the sequence [3]
C30_Witness ==
    /\ http.lookup = "hit"
    /\ http.code = 200
    /\ pc = "idle"
    /\ ~req.pass_param
    /\ SelectSequence(req) = <<2, 3, 4>>
    /\ \E e \in stored :
          /\ e.name = RequestKey(req)
          /\ e.result = http.body
          /\ DifferInPassOnly(e.by, req)
          /\ SelectSequence(e.by) = <<3>>
          /\ Plan(e.by) # Plan(req)

Returned == WithMetadata(WithMood(response, req.mood), req.metadata)

\* C12: save_to_cache lets no exception through to its caller, whatever goes
\* wrong while the entry is written, and the handler that called it answers
\* with its response unchanged.
C12_StoreNeverRaises ==
    /\ cacheOp.op = "save" => cacheOp.exc = ""
    /\ http # NoHttp => http.code = 200 /\ http.body = Returned

\* the write of a cacheable response broke off, leaving a file that is not
\* JSON, and the response was returned
C12_Witness ==
    /\ cacheOp.op = "save"
    /\ Cacheable(cacheOp.result)
    /\ Exists(cache_files, cacheOp.key)
    /\ Unparseable(ContentOf(cache_files, cacheOp.key))
    /\ http.code = 200
    /\ http.body = cacheOp.result
    /\ cacheOp.key = RequestKey(req)

\* the files as far as the key of the last cache operation goes, as they were
\* when that operation was called
FilesBefore ==
    IF cacheOp.found = NoText THEN {} ELSE {CacheFile(cacheOp.key, cacheOp.found)}

\* the last cache operation was a save that did not write its entry
SaveFailed ==
    /\ cacheOp.op = "save"
    /\ Found(cache_files, cacheOp.key) # DumpEntry(cacheOp.at + CACHE_TTL, cacheOp.result)

\* C34: after a save that failed, a load of its key returns what a load
\* returned before the save was called: an entry stored earlier under the
\* key that has not expired is still served.
C34_FailedStoreKeepsEntry ==
    SaveFailed =>
        load_from_cache(cache_files, cacheOp.key, cacheOp.at)
            = load_from_cache(FilesBefore, cacheOp.key, cacheOp.at)

\* an entry that was being served is gone after a save whose write broke off
C34_Witness ==
    /\ SaveFailed
    /\ load_from_cache(FilesBefore, cacheOp.key, cacheOp.at) \in CacheResults
    /\ Unparseable(ContentOf(cache_files, cacheOp.key))
    /\ load_from_cache(cache_files, cacheOp.key, cacheOp.at) = NoResponse

(***************************************************************************)
(* Properties of the validator, checked under MatchSpec                    *)
(***************************************************************************)
\* the normalized artists and the normalized title of the candidate
Candidate == extract_artist_song_from_result(matchArgs.result)

\* the song similarity is at least the threshold
SongMatches ==
    AtLeast(get_similarity_ratio(normalize_string(matchArgs.song), Candidate.song),
            matchArgs.threshold)

\* (a): name is similar enough to some single returned artist
ByArtistList(name) ==
    \E k \in DOMAIN Candidate.artists :
        AtLeast(get_similarity_ratio(name, Candidate.artists[k]), matchArgs.threshold)

\* (b): name is longer than 3 and part of the returned artists joined by blanks
ByArtistString(name) ==
    Len(name) > 3 /\ IsSubstring(name, JoinWithSpace(Candidate.artists))

\* (c): name is longer than 3 and part of the returned title
BySongTitle(name) == Len(name) > 3 /\ IsSubstring(name, Candidate.song)

\* name matches by one of the three methods
ArtistMatches(name) == ByArtistList(name) \/ ByArtistString(name) \/ BySongTitle(name)

\* some requested artist matches
SomeArtistMatches == \E i \in DOMAIN verdicts[1] : ArtistMatches(verdicts[1][i])

\* C36 as stated: the verdict is valid exactly if the song matches and some
\* requested artist matches by (a), (b) or (c).
C36_AcceptanceRuleAsStated ==
    verdicts # <<>> => (verdicts[2].valid <=> SongMatches /\ SomeArtistMatches)

\* C36, amended: the verdict is valid exactly if the candidate names at least
\* one artist and a title, the song matches and some requested artist
\* matches by (a), (b) or (c); a candidate whose song matches exactly and
\* whose artist matches by none of them is invalid, and so is a candidate
\* without artist or without title.
C36_AcceptanceRule ==
    verdicts # <<>> =>
        /\ verdicts[2].valid <=>
              /\ Candidate.artists # <<>>
              /\ Candidate.song # <<>>
              /\ SongMatches
              /\ SomeArtistMatches
        /\ (Candidate.song = normalize_string(matchArgs.song) /\ ~SomeArtistMatches)
              => ~verdicts[2].valid

\* the candidate names no artist, its title is the requested one and holds
\* the requested artist, and it is rejected for missing metadata
C36_Witness ==
    /\ verdicts # <<>>
    /\ Candidate.artists = <<>>
    /\ SongMatches
    /\ SomeArtistMatches
    /\ ~verdicts[2].valid
    /\ verdicts[2].reason = "Missing metadata"

\* the method by which name matches, the earliest of the three
MethodOf(name) ==
    IF ByArtistList(name) THEN "Artist List"
    ELSE IF ByArtistString(name) THEN "Partial Artist String"
    ELSE "Song Title"

\* the first requested artist that matches
FirstMatching == Min({i \in DOMAIN verdicts[1] : ArtistMatches(verdicts[1][i])})

\* C37: the tag of a valid verdict is that of the first requested artist, in
\* the order requested, that matches by some method, and of the first method,
\* in the order Artist List, Partial Artist String, Song Title, by which it
\* matches; when that artist equals a returned artist the tag is Artist List.
C37_FirstMatchTagged ==
    verdicts # <<>> /\ verdicts[2].valid =>
        /\ verdicts[2].match_method = MethodOf(verdicts[1][FirstMatching])
        /\ verdicts[1][FirstMatching] \in Range(Candidate.artists)
              => verdicts[2].match_method = "Artist List"

\* of two requested artists the first does not match and the second is a
\* returned artist and part of the artist string: the tag is Artist List
C37_Witness ==
    /\ verdicts # <<>>
    /\ verdicts[2].valid
    /\ Len(verdicts[1]) = 2
    /\ FirstMatching = 2
    /\ verdicts[1][2] \in Range(Candidate.artists)
    /\ ByArtistString(verdicts[1][2])
    /\ verdicts[2].match_method = "Artist List"

\* the words of s, cut at blanks
Words(s) == SplitOn(s, {" "})

\* s contains one of , ; /
HasSeparator(s) == \E i \in DOMAIN s : s[i] \in {",", ";", "/"}

\* s contains one of feat. ft. featuring with & and as a word of its own
HasConjunction(s) ==
    \E i \in DOMAIN Words(s) : LowerStr(Words(s)[i]) \in Range(FeaturingPatterns)

\* C38: an artist string without separator and without a conjunction as a
\* word of its own yields exactly one name, the normalized form of the string.
C38_OneNameWithoutSeparator ==
    (verdicts # <<>> /\ ~HasSeparator(matchArgs.artist) /\ ~HasConjunction(matchArgs.artist))
        => verdicts[1] = <<normalize_string(matchArgs.artist)>>

\* "Brandy" is cut at the letters a, n, d into "br" and "y"
C38_Witness ==
    /\ verdicts # <<>>
    /\ matchArgs.artist = <<"B","r","a","n","d","y">>
    /\ verdicts[1] = << <<"b","r">>, <<"y">> >>

\* the validator accepts the candidate of attempt a
Accepts(a) ==
    validate_lyrics_match(matchArgs.artist, matchArgs.song, a.result,
                          matchArgs.threshold).valid

\* the successful attempts whose candidate the validator accepts, in the order
\* of the attempts
ValidAttempts == SelectSeq(matchArgs.attempts, LAMBDA a : a.success /\ Accepts(a))

\* C39: valid_results holds, in the order of the attempts, exactly the
\* successful attempts whose candidate validates, each with its provider,
\* its result and its verdict, and nothing of the other attempts;
\* has_valid_match tells whether there is one and all_failed is its negation.
C39_ValidResultsInOrder ==
    verdicts # <<>> =>
        /\ Len(verdicts[3].valid_results) = Len(ValidAttempts)
        /\ \A i \in DOMAIN ValidAttempts :
              /\ verdicts[3].valid_results[i].api = ValidAttempts[i].api
              /\ verdicts[3].valid_results[i].result = ValidAttempts[i].result
              /\ verdicts[3].valid_results[i].validation
                    = validate_lyrics_match(matchArgs.artist, matchArgs.song,
                                            ValidAttempts[i].result, matchArgs.threshold)
        /\ verdicts[3].has_valid_match <=> verdicts[3].valid_results # <<>>
        /\ verdicts[3].all_failed <=> ~verdicts[3].has_valid_match

\* of a successful attempt that does not validate, a failed one and a
\* successful one that validates, only the last is in valid_results
C39_Witness ==
    /\ verdicts # <<>>
    /\ Len(matchArgs.attempts) = 3
    /\ matchArgs.attempts[1].success /\ ~Accepts(matchArgs.attempts[1])
    /\ matchArgs.attempts[1].result # NoResult
    /\ ~matchArgs.attempts[2].success
    /\ matchArgs.attempts[3].success /\ Accepts(matchArgs.attempts[3])
    /\ Len(verdicts[3].valid_results) = 1
    /\ verdicts[3].valid_results[1].api = matchArgs.attempts[3].api
    /\ verdicts[3].has_valid_match
    /\ ~verdicts[3].all_failed

(***************************************************************************)
(* Properties of clear_cache and cache_stats, checked under CacheSpec      *)
(***************************************************************************)
\* how often name occurs in list
Occurrences(list, name) == Cardinality({i \in DOMAIN list : list[i] = name})

\* C35: clear_cache returns every entry that was present in exactly one of
\* its lists removed and failed, and nothing else; no entry listed as removed
\* exists afterwards, so a load of its key returns absent; and when failed
\* is empty cache_stats counts no entry.
C35_ClearPartitions ==
    [][CacheClear =>
          /\ \A f \in cache_files :
                Occurrences(cleared'.removed, f.name)
                    + Occurrences(cleared'.failed, f.name) = 1
          /\ \A n \in CacheKeys :
                Occurrences(cleared'.removed \o cleared'.failed, n) > 0
                    => Exists(cache_files, n)
          /\ \A i \in DOMAIN cleared'.removed :
                /\ ~Exists(cache_files', cleared'.removed[i])
                /\ load_from_cache(cache_files', cleared'.removed[i], now') = NoResponse
          /\ cleared'.failed = <<>> => cache_stats(cache_files').cache_files = 0]_vars

\* of two entries, clear_cache removed one and failed on the other, which is
\* still there
C35_Witness ==
    /\ cacheOp.op = "clear"
    /\ Len(cleared.removed) = 1
    /\ Len(cleared.failed) = 1
    /\ cleared.removed[1] # cleared.failed[1]
    /\ ~Exists(cache_files, cleared.removed[1])
    /\ Exists(cache_files, cleared.failed[1])
    /\ cache_stats(cache_files).cache_files = 1

(***************************************************************************)
(* Properties of concurrent cache calls, checked under SharedSpec          *)
(***************************************************************************)
\* the request has stored and has made no cache call since
HasStored(c) == calls[c].op = "store" /\ calls[c].at = "done"

\* the request has loaded and has made no cache call since
HasLoaded(c) == calls[c].op = "load" /\ calls[c].at = "done"

\* what a load of the shared key would return now
LoadNow == load_from_cache(DiskFiles, SharedKey, now)

\* the file holds exactly the text the store of c wrote
HoldsEntryOf(c) ==
    disk.exists /\ disk.cells = EntryCells(calls[c].expiry, calls[c].result)

\* C32: when both requests have stored to the key, the file holds the whole
\* text of one of the two stores, neither a mixture of both nor a part of
\* one, and a load before that entry expires returns its result.
C32_LastWriterWins ==
    (\A c \in Callers : HasStored(c)) =>
        /\ \E c \in Callers : HoldsEntryOf(c)
        /\ \A c \in Callers :
              HoldsEntryOf(c) /\ now <= calls[c].expiry => LoadNow = calls[c].result

\* both stores have returned and the file holds the shorter text followed by
\* the end of the longer one, which a load drops
C32_Witness ==
    /\ server = "router"
    /\ \A c \in Callers : HasStored(c)
    /\ disk.exists
    /\ Len(disk.cells) = 2
    /\ disk.cells[1].part = 1
    /\ disk.cells[2].part = 2
    /\ disk.cells[1].result # disk.cells[2].result
    /\ LoadNow = NoResponse

\* C33: a load that runs beside the store of another request returns absent
\* or the result of an entry it read whole, and once that store has returned
\* a load before the expiry returns the stored result: the load beside it
\* has not removed the entry.
C33_LoadSparesStore ==
    \A c \in Callers : \A d \in Callers \ {c} :
        /\ HasLoaded(d) /\ calls[d].result # NoResponse =>
              /\ ~Unparseable(calls[d].found)
              /\ calls[d].result = EntryResult(calls[d].found)
        /\ HasStored(c) /\ ~calls[d].wrote /\ now <= calls[c].expiry =>
              LoadNow = calls[c].result

\* the load read the file while the store had written nothing yet, took it
\* for corrupt and removed it; the store has returned and there is no entry
C33_Witness ==
    /\ server = "router"
    /\ \E c \in Callers : \E d \in Callers \ {c} :
          /\ HasStored(c)
          /\ now <= calls[c].expiry
          /\ HasLoaded(d)
          /\ ~calls[d].wrote
          /\ Unparseable(calls[d].found)
          /\ ~disk.exists
          /\ LoadNow = NoResponse

====
